---- MODULE Spec2Model ----
(***************************************************************************)
(* Model of daviduhlir/local-db.                                           *)
(*                                                                         *)
(* Part 1: JsonDBRepository + JsonDBIndex (src/lib/components): entity     *)
(* files, one JSON index file per index (forward / backward maps), and the *)
(* SharedMutex scopes every operation runs in.  Every await of the code    *)
(* that another task can interleave with is a separate step.               *)
(*                                                                         *)
(* Part 2: the LevelDB backed LocalDBIndex (src/lib/utils.ts) with the     *)
(* LocalDB repository and index getter that drive it.                      *)
(***************************************************************************)
EXTENDS Integers, Sequences, FiniteSets, TLC

\* ------------------------------------------------------------------ bounds
NTasks == 2          \* concurrent callers
MaxOps == 3          \* calls issued over a run
MaxIds == 2          \* entities ever inserted

Tasks == 1..NTasks
\* createRandomId: the n-th id produced
IdOf(n) == ToString(n)
Ids == {IdOf(n) : n \in 1..MaxIds}

\* --------------------------------------------------------------- constants
\* options.indexes, in Object.values order; the field path of an index is
\* its name here.
IndexOrder == <<"name", "status">>
Indexes == {IndexOrder[n] : n \in 1..Len(IndexOrder)}
NIdx == Len(IndexOrder)

\* values callers store at the indexed paths
FieldValues == [name |-> {"a", "b"}, status |-> {"x"}]
Undefined == "undefined"
HashUndefined == "sha256:undefined"

\* entity values handed to insert
Docs == {d \in [Indexes -> {"a", "b", "x"}] : \A f \in Indexes : d[f] \in FieldValues[f]}
\* partial data handed to edit: any subset of the top-level keys
Patches == UNION {{p \in [S -> {"a", "b", "x"}] : \A f \in S : p[f] \in FieldValues[f]} : S \in SUBSET Indexes}

Unique == "unique"                       \* this.unique
\* (a rebuild scope named apart from the entity keys)
RepoKeyApart == <<Unique \o "-remap">>
RepoKey == <<Unique>>                    \* `${unique}`
InsertKey == <<Unique, "insert">>        \* `${unique}/insert`
IdKey(id) == <<Unique, id>>    \* `${unique}/${id}`
IndexKey(i) == <<Unique \o "-index:" \o i>>   \* `${unique}-index:${indexName}`

EmptyIndex == [forward |-> <<>>, backward |-> <<>>]

VARIABLES
  files,     \* id -> stored entity, for the ids whose {id}.json exists
  index,     \* index name -> [forward, backward], the content of the index file
  nextId,    \* number of ids createRandomId has produced
  known,     \* ids returned by completed insert calls
  held,      \* task -> stack of the SharedMutex scopes it is inside
  pc,        \* task -> position in its current call
  arg,       \* task -> [kind, id, item] of its current call
  pos,       \* task -> position in IndexOrder of the index being maintained
  buf,       \* task -> data read by modifyIndex / items read by getAll
  last,      \* task -> [kind, id, ok] of its last completed call
  ops,       \* calls issued so far
  lForward,  \* LocalDBIndex.dbForward: key -> ids
  lBackward, \* LocalDBIndex.dbBackward: id -> key
  lExists,   \* the forward / backward stores of the LocalDBIndex exist on disk
  lData,     \* LocalDB.db: id -> stored entity
  worker,    \* caller -> cluster.isWorker of the process it runs in
  dbs,       \* process -> LevelDBCluster.dbs[unique]: "none", "local" or "proxy"
  referenceCounter,  \* LevelDB.referenceCounter of the store of the owner
  dbLog,     \* the calls of db.open() / db.close() made on the physical store
  handles    \* caller -> results of getInstance it has not closed yet

vars == <<files, index, nextId, known, held, pc, arg, pos, buf, last, ops, lForward, lBackward, lExists,
          lData, worker, dbs, referenceCounter, dbLog, handles>>

\* the state of the LevelDB backed index
lvars == <<lForward, lBackward, lExists>>

\* the state of the JSON file repository
jvars == <<files, index, nextId, known>>

\* the state of the LevelDB cluster and of the LocalDB entity store
cvars == <<lData, worker, dbs, referenceCounter, dbLog, handles>>

NoId == ""
NoArg == [kind |-> "none", id |-> NoId, item |-> <<>>]
NoLast == [kind |-> "none", id |-> NoId, ok |-> TRUE]

\* ------------------------------------------------------------ pure helpers
Min(a, b) == IF a < b THEN a ELSE b

SeqToSet(s) == {s[n] : n \in 1..Len(s)}

Includes(s, x) == \E n \in 1..Len(s) : s[n] = x

\* Array.prototype.indexOf, 1-based; 0 when absent
IndexOf(s, x) == IF Includes(s, x) THEN CHOOSE n \in 1..Len(s) : s[n] = x /\ \A m \in 1..(n - 1) : s[m] # x ELSE 0

\* ids.splice(n, 1)
Splice(s, n) == [m \in 1..(Len(s) - 1) |-> IF m < n THEN s[m] ELSE s[m + 1]]

\* delete obj[k]
DeleteKey(f, k) == [x \in DOMAIN f \ {k} |-> f[x]]

\* obj[k] = v
SetKey(f, k, v) == [x \in DOMAIN f \cup {k} |-> IF x = k THEN v ELSE f[x]]

\* getByExpression(item, path) for a top-level path
getByExpression(item, path) == IF path \in DOMAIN item THEN item[path] ELSE Undefined

\* serializeKeyByValue: strings are their own key, undefined is a hash
serializeKeyByValue(v) == IF v = Undefined THEN HashUndefined ELSE v

\* { ...value, $id: id }
WithId(value, id) == [k \in DOMAIN value \cup {"$id"} |-> IF k = "$id" THEN id ELSE value[k]]

\* { ...oldData, ...value, $id: id }
Merge(oldData, value, id) == [k \in DOMAIN oldData \cup DOMAIN value \cup {"$id"} |->
                               IF k = "$id" THEN id
                               ELSE IF k \in DOMAIN value THEN value[k] ELSE oldData[k]]

\* ------------------------------------------------------------- SharedMutex
\* Lock keys are '/' separated paths; two keys are related when one is a
\* prefix of the other.
keysRelatedMatch(k1, k2) == \A n \in 1..Min(Len(k1), Len(k2)) : k1[n] = k2[n]

Blocks(l, key, single) == /\ ~l.skipped
                          /\ keysRelatedMatch(l.key, key)
                          /\ (single \/ l.single)

\* (a mutex that takes every requested lock, nested or not)
neverSkipLock(t, key) == FALSE

\* A scope requested inside a scope of a related key is entered without
\* taking the lock again.
shouldSkipLock(t, key) == \E n \in 1..Len(held[t]) : keysRelatedMatch(held[t][n].key, key)

CanLock(t, key, single) == \/ shouldSkipLock(t, key)
                           \/ \A u \in Tasks : \A n \in 1..Len(held[u]) : ~Blocks(held[u][n], key, single)

Lock(t, key, single) == [held EXCEPT ![t] = Append(@, [key |-> key, single |-> single, skipped |-> shouldSkipLock(t, key)])]

Unlock(t) == [held EXCEPT ![t] = SubSeq(@, 1, Len(@) - 1)]

\* -------------------------------------------------------- JsonDBIndex data
\* (the bucket is replaced by the new id instead of extended)
addItemOverwrite(data, i, item) ==
  LET k == serializeKeyByValue(getByExpression(item, i))
      id == item["$id"]
      ids == IF k \in DOMAIN data.forward THEN data.forward[k] ELSE <<>>
  IN IF ~Includes(ids, id)
     THEN [forward |-> SetKey(data.forward, k, <<id>>),
           backward |-> SetKey(data.backward, id, k)]
     ELSE data

\* modifier of friendMethodsSymbolAddItem
addItem(data, i, item) ==
  LET k == serializeKeyByValue(getByExpression(item, i))
      id == item["$id"]
      ids == IF k \in DOMAIN data.forward THEN data.forward[k] ELSE <<>>
  IN IF ~Includes(ids, id)
     THEN [forward |-> SetKey(data.forward, k, Append(ids, id)),
           backward |-> SetKey(data.backward, id, k)]
     ELSE data

\* (only the backward entry is removed, the forward bucket keeps the id)
removeItemKeepForward(data, id) ==
  IF id \notin DOMAIN data.backward
  THEN data
  ELSE [forward |-> data.forward, backward |-> DeleteKey(data.backward, id)]

\* (the index is left as it is)
removeItemNothing(data, id) == data

\* (the whole bucket of the id is deleted)
removeItemDropBucket(data, id) ==
  IF id \notin DOMAIN data.backward
  THEN data
  ELSE [forward |-> DeleteKey(data.forward, data.backward[id]),
        backward |-> DeleteKey(data.backward, id)]

\* modifier of friendMethodsSymbolRemoveItem
removeItem(data, id) ==
  IF id \notin DOMAIN data.backward
  THEN data
  ELSE LET k == data.backward[id]
           ids == IF k \in DOMAIN data.forward THEN data.forward[k] ELSE <<>>
           idx == IndexOf(ids, id)
       IN IF idx = 0
          THEN data
          ELSE [forward |-> IF Len(ids) > 1 THEN SetKey(data.forward, k, Splice(ids, idx))
                                           ELSE DeleteKey(data.forward, k),
                backward |-> DeleteKey(data.backward, id)]

\* the loop of friendMethodsSymbolRemapIndex over items[from..]
RECURSIVE remapItems(_, _, _, _)
remapItems(data, i, items, from) ==
  IF from > Len(items)
  THEN data
  ELSE LET item == items[from]
           k == serializeKeyByValue(getByExpression(item, i))
           ids == IF k \in DOMAIN data.forward THEN data.forward[k] ELSE <<>>
       IN remapItems([forward |-> SetKey(data.forward, k, Append(ids, item["$id"])),
                      backward |-> SetKey(data.backward, item["$id"], k)], i, items, from + 1)

\* getAllRaw: the entity files, in directory (file name) order
RECURSIVE getAllRaw(_, _)
getAllRaw(fs, from) ==
  IF from > MaxIds
  THEN <<>>
  ELSE (IF IdOf(from) \in DOMAIN fs THEN <<fs[IdOf(from)]>> ELSE <<>>) \o getAllRaw(fs, from + 1)

\* ------------------------------------------------------------------- Init
\* after construction and open() on an empty directory
Init == /\ files = <<>>
        /\ index = [i \in Indexes |-> EmptyIndex]
        /\ nextId = 0
        /\ known = {}
        /\ held = [t \in Tasks |-> <<>>]
        /\ pc = [t \in Tasks |-> "idle"]
        /\ arg = [t \in Tasks |-> NoArg]
        /\ pos = [t \in Tasks |-> 0]
        /\ buf = [t \in Tasks |-> <<>>]
        /\ last = [t \in Tasks |-> NoLast]
        /\ ops = 0
        /\ lForward = <<>>
        /\ lBackward = <<>>
        /\ lExists = FALSE
        /\ lData = <<>>
        /\ worker = [t \in Tasks |-> FALSE]
        /\ dbs = [p \in 0..NTasks |-> "none"]
        /\ referenceCounter = 0
        /\ dbLog = <<>>
        /\ handles = [t \in Tasks |-> 0]

CurIndex(t) == IndexOrder[pos[t]]

\* a caller issues a call and reaches the SharedMutex scope of the handler
Call(t, kind, id, item, wait) ==
  /\ pc[t] = "idle"
  /\ ops < MaxOps
  /\ ops' = ops + 1
  /\ pc' = [pc EXCEPT ![t] = wait]
  /\ arg' = [arg EXCEPT ![t] = [kind |-> kind, id |-> id, item |-> item]]
  /\ UNCHANGED <<files, index, nextId, known, held, buf, last, lForward, lBackward, lExists, cvars>>

\* the handler returns or throws: its scope is left and the caller resumes
Return(t, ok) ==
  /\ pc' = [pc EXCEPT ![t] = "idle"]
  /\ last' = [last EXCEPT ![t] = [kind |-> arg[t].kind, id |-> arg[t].id, ok |-> ok]]
  /\ arg' = [arg EXCEPT ![t] = NoArg]
  /\ pos' = [pos EXCEPT ![t] = 0]
  /\ buf' = [buf EXCEPT ![t] = <<>>]

\* ------------------------------------------------- JsonDBIndex.modifyIndex
\* lockSingleAccess on the index key, then readIndexData
modifyIndex(t) ==
  /\ pc[t] \in {"add_wait", "rm_wait", "clr_wait", "remap_mod_wait"}
  /\ CanLock(t, IndexKey(CurIndex(t)), TRUE)
  /\ held' = Lock(t, IndexKey(CurIndex(t)), TRUE)
  /\ buf' = [buf EXCEPT ![t] = IF pc[t] = "remap_mod_wait" THEN @ ELSE index[CurIndex(t)]]
  /\ pc' = [pc EXCEPT ![t] = CASE pc[t] = "add_wait" -> "add_locked"
                                [] pc[t] = "rm_wait" -> "rm_locked"
                                [] pc[t] = "clr_wait" -> "clr_locked"
                                [] pc[t] = "remap_mod_wait" -> "remap_locked"]
  /\ UNCHANGED <<files, index, nextId, known, arg, pos, last, ops, lForward, lBackward, lExists, cvars>>

\* ------------------------------------------------- JsonDBRepository.insert
\* (at most MaxIds entities are ever inserted)
insert(t) ==
  /\ nextId + Cardinality({u \in Tasks : pc[u] \in {"insert_wait", "insert_write"}}) < MaxIds
  /\ \E value \in Docs : /\ Call(t, "insert", NoId, value, "insert_wait") /\ UNCHANGED pos

insertLock(t) ==
  /\ pc[t] = "insert_wait"
  /\ CanLock(t, InsertKey, TRUE)
  /\ held' = Lock(t, InsertKey, TRUE)
  /\ pc' = [pc EXCEPT ![t] = "insert_write"]
  /\ UNCHANGED <<files, index, nextId, known, arg, pos, buf, last, ops, lForward, lBackward, lExists, cvars>>

\* createRandomId and the writeFile of the entity
insertWrite(t) ==
  /\ pc[t] = "insert_write"
  /\ LET id == IdOf(nextId + 1)
         item == WithId(arg[t].item, id)
     IN /\ nextId' = nextId + 1
        /\ files' = SetKey(files, id, item)
        /\ arg' = [arg EXCEPT ![t] = [kind |-> "insert", id |-> id, item |-> item]]
  /\ pos' = [pos EXCEPT ![t] = 1]
  /\ pc' = [pc EXCEPT ![t] = "add_wait"]
  /\ UNCHANGED <<index, known, held, buf, last, ops, lForward, lBackward, lExists, cvars>>

\* friendMethodsSymbolAddItem: modifier and writeIndexData; then the next
\* index of the loop of insert / edit, or the end of the handler
addItemWrite(t) ==
  /\ pc[t] = "add_locked"
  /\ index' = [index EXCEPT ![CurIndex(t)] = addItem(buf[t], CurIndex(t), arg[t].item)]
  /\ IF pos[t] < NIdx
     THEN /\ held' = Unlock(t)
          /\ pos' = [pos EXCEPT ![t] = @ + 1]
          /\ pc' = [pc EXCEPT ![t] = IF arg[t].kind = "edit" THEN "rm_wait" ELSE "add_wait"]
          /\ buf' = [buf EXCEPT ![t] = <<>>]
          /\ UNCHANGED <<known, arg, last>>
     ELSE /\ held' = [held EXCEPT ![t] = <<>>]
          /\ known' = IF arg[t].kind = "insert" THEN known \cup {arg[t].id} ELSE known
          /\ Return(t, TRUE)
  /\ UNCHANGED <<files, nextId, ops, lForward, lBackward, lExists, cvars>>

\* --------------------------------------------------- JsonDBRepository.edit
edit(t) ==
  \E id \in known, value \in Patches : /\ Call(t, "edit", id, value, "edit_wait") /\ UNCHANGED pos

\* (the scope of edit taken with lockMultiAccess)
editLockMulti(t) ==
  /\ pc[t] = "edit_wait"
  /\ CanLock(t, IdKey(arg[t].id), FALSE)
  /\ held' = Lock(t, IdKey(arg[t].id), FALSE)
  /\ pc' = [pc EXCEPT ![t] = "edit_write"]
  /\ UNCHANGED <<files, index, nextId, known, arg, pos, buf, last, ops, lForward, lBackward, lExists, cvars>>

editLock(t) ==
  /\ pc[t] = "edit_wait"
  /\ CanLock(t, IdKey(arg[t].id), TRUE)
  /\ held' = Lock(t, IdKey(arg[t].id), TRUE)
  /\ pc' = [pc EXCEPT ![t] = "edit_write"]
  /\ UNCHANGED <<files, index, nextId, known, arg, pos, buf, last, ops, lForward, lBackward, lExists, cvars>>

\* (no stat: a missing entity is written anew from the partial data)
editWriteNoStat(t) ==
  /\ pc[t] = "edit_write"
  /\ LET oldData == IF arg[t].id \in DOMAIN files THEN files[arg[t].id] ELSE <<>>
         item == Merge(oldData, arg[t].item, arg[t].id)
     IN /\ files' = SetKey(files, arg[t].id, item)
        /\ arg' = [arg EXCEPT ![t].item = item]
  /\ pos' = [pos EXCEPT ![t] = 1]
  /\ pc' = [pc EXCEPT ![t] = "rm_wait"]
  /\ UNCHANGED <<held, buf, last>>
  /\ UNCHANGED <<index, nextId, known, ops, lForward, lBackward, lExists, cvars>>

\* stat, readFile, merge and writeFile of the entity
editWrite(t) ==
  /\ pc[t] = "edit_write"
  /\ IF arg[t].id \notin DOMAIN files
     THEN /\ held' = Unlock(t)
          /\ Return(t, FALSE)
          /\ UNCHANGED files
     ELSE LET item == Merge(files[arg[t].id], arg[t].item, arg[t].id)
          IN /\ files' = SetKey(files, arg[t].id, item)
             /\ arg' = [arg EXCEPT ![t].item = item]
             /\ pos' = [pos EXCEPT ![t] = 1]
             /\ pc' = [pc EXCEPT ![t] = "rm_wait"]
             /\ UNCHANGED <<held, buf, last>>
  /\ UNCHANGED <<index, nextId, known, ops, lForward, lBackward, lExists, cvars>>

\* friendMethodsSymbolRemoveItem: modifier and writeIndexData; then the add
\* of the same index (edit), the next index (delete) or the end of delete
removeItemWrite(t) ==
  /\ pc[t] = "rm_locked"
  /\ index' = [index EXCEPT ![CurIndex(t)] = removeItem(buf[t], arg[t].id)]
  /\ IF arg[t].kind = "edit"
     THEN /\ held' = Unlock(t)
          /\ pc' = [pc EXCEPT ![t] = "add_wait"]
          /\ buf' = [buf EXCEPT ![t] = <<>>]
          /\ UNCHANGED <<arg, pos, last>>
     ELSE IF pos[t] < NIdx
          THEN /\ held' = Unlock(t)
               /\ pos' = [pos EXCEPT ![t] = @ + 1]
               /\ pc' = [pc EXCEPT ![t] = "rm_wait"]
               /\ buf' = [buf EXCEPT ![t] = <<>>]
               /\ UNCHANGED <<arg, last>>
          ELSE /\ held' = [held EXCEPT ![t] = <<>>]
               /\ Return(t, TRUE)
  /\ UNCHANGED <<files, nextId, known, ops, lForward, lBackward, lExists, cvars>>

\* ------------------------------------------------- JsonDBRepository.delete
delete(t) ==
  \E id \in known : /\ Call(t, "delete", id, <<>>, "delete_wait") /\ UNCHANGED pos

deleteLock(t) ==
  /\ pc[t] = "delete_wait"
  /\ CanLock(t, IdKey(arg[t].id), TRUE)
  /\ held' = Lock(t, IdKey(arg[t].id), TRUE)
  /\ pc' = [pc EXCEPT ![t] = "delete_unlink"]
  /\ UNCHANGED <<files, index, nextId, known, arg, pos, buf, last, ops, lForward, lBackward, lExists, cvars>>

\* (no stat: the unlink and the index maintenance run for a missing entity too)
deleteUnlinkNoStat(t) ==
  /\ pc[t] = "delete_unlink"
  /\ files' = DeleteKey(files, arg[t].id)
  /\ pos' = [pos EXCEPT ![t] = 1]
  /\ pc' = [pc EXCEPT ![t] = "rm_wait"]
  /\ UNCHANGED <<held, arg, buf, last>>
  /\ UNCHANGED <<index, nextId, known, ops, lForward, lBackward, lExists, cvars>>

\* stat and unlink of the entity
deleteUnlink(t) ==
  /\ pc[t] = "delete_unlink"
  /\ IF arg[t].id \notin DOMAIN files
     THEN /\ held' = Unlock(t)
          /\ Return(t, FALSE)
          /\ UNCHANGED files
     ELSE /\ files' = DeleteKey(files, arg[t].id)
          /\ pos' = [pos EXCEPT ![t] = 1]
          /\ pc' = [pc EXCEPT ![t] = "rm_wait"]
          /\ UNCHANGED <<held, arg, buf, last>>
  /\ UNCHANGED <<index, nextId, known, ops, lForward, lBackward, lExists, cvars>>

\* -------------------------------------------------- JsonDBRepository.clear
clear(t) ==
  /\ Call(t, "clear", NoId, <<>>, "clear_wait")
  /\ UNCHANGED pos

\* (the scope of clear named apart from the entity keys)
clearLockApart(t) ==
  /\ pc[t] = "clear_wait"
  /\ CanLock(t, <<Unique \o "-clear">>, TRUE)
  /\ held' = Lock(t, <<Unique \o "-clear">>, TRUE)
  /\ pc' = [pc EXCEPT ![t] = "clear_unlink"]
  /\ UNCHANGED <<files, index, nextId, known, arg, pos, buf, last, ops, lForward, lBackward, lExists, cvars>>

clearLock(t) ==
  /\ pc[t] = "clear_wait"
  /\ CanLock(t, RepoKey, TRUE)
  /\ held' = Lock(t, RepoKey, TRUE)
  /\ pc' = [pc EXCEPT ![t] = "clear_unlink"]
  /\ UNCHANGED <<files, index, nextId, known, arg, pos, buf, last, ops, lForward, lBackward, lExists, cvars>>

\* readdir and unlink of every '.json' file: the entities and the index
\* files (an absent index file reads as an empty index)
clearUnlink(t) ==
  /\ pc[t] = "clear_unlink"
  /\ files' = <<>>
  /\ index' = [i \in Indexes |-> EmptyIndex]
  /\ pos' = [pos EXCEPT ![t] = 1]
  /\ pc' = [pc EXCEPT ![t] = "clr_wait"]
  /\ UNCHANGED <<nextId, known, held, arg, buf, last, ops, lForward, lBackward, lExists, cvars>>

\* friendMethodsSymbolClearIndex: modifier and writeIndexData
clearIndexWrite(t) ==
  /\ pc[t] = "clr_locked"
  /\ index' = [index EXCEPT ![CurIndex(t)] = EmptyIndex]
  /\ IF pos[t] < NIdx
     THEN /\ held' = Unlock(t)
          /\ pos' = [pos EXCEPT ![t] = @ + 1]
          /\ pc' = [pc EXCEPT ![t] = "clr_wait"]
          /\ buf' = [buf EXCEPT ![t] = <<>>]
          /\ UNCHANGED <<arg, last>>
     ELSE /\ held' = [held EXCEPT ![t] = <<>>]
          /\ Return(t, TRUE)
  /\ UNCHANGED <<files, nextId, known, ops, lForward, lBackward, lExists, cvars>>

\* --------------------------------------------- JsonDBRepository.remapIndex
remapIndex(t) ==
  /\ Call(t, "remapIndex", NoId, <<>>, "remap_wait")
  /\ UNCHANGED pos

\* (the scope of remapIndex taken with lockMultiAccess)
remapIndexLockMulti(t) ==
  /\ pc[t] = "remap_wait"
  /\ CanLock(t, RepoKey, FALSE)
  /\ held' = Lock(t, RepoKey, FALSE)
  /\ pos' = [pos EXCEPT ![t] = 1]
  /\ pc' = [pc EXCEPT ![t] = "remap_index"]
  /\ UNCHANGED <<files, index, nextId, known, arg, buf, last, ops, lForward, lBackward, lExists, cvars>>

remapIndexLock(t) ==
  /\ pc[t] = "remap_wait"
  /\ CanLock(t, RepoKey, TRUE)
  /\ held' = Lock(t, RepoKey, TRUE)
  /\ pos' = [pos EXCEPT ![t] = 1]
  /\ pc' = [pc EXCEPT ![t] = "remap_index"]
  /\ UNCHANGED <<files, index, nextId, known, arg, buf, last, ops, lForward, lBackward, lExists, cvars>>

\* friendMethodsSymbolRemapIndex: lockSingleAccess on `${unique}` and
\* dataGetters.getAll()
remapGetAll(t) ==
  /\ pc[t] = "remap_index"
  /\ CanLock(t, RepoKey, TRUE)
  /\ held' = Lock(t, RepoKey, TRUE)
  /\ buf' = [buf EXCEPT ![t] = getAllRaw(files, 1)]
  /\ pc' = [pc EXCEPT ![t] = "remap_mod_wait"]
  /\ UNCHANGED <<files, index, nextId, known, arg, pos, last, ops, lForward, lBackward, lExists, cvars>>

\* (the modifier does not reset data.forward and data.backward)
remapWriteNoReset(t) ==
  /\ pc[t] = "remap_locked"
  /\ index' = [index EXCEPT ![CurIndex(t)] = remapItems(@, CurIndex(t), buf[t], 1)]
  /\ IF pos[t] < NIdx
     THEN /\ held' = [held EXCEPT ![t] = SubSeq(@, 1, Len(@) - 2)]
          /\ pos' = [pos EXCEPT ![t] = @ + 1]
          /\ pc' = [pc EXCEPT ![t] = "remap_index"]
          /\ buf' = [buf EXCEPT ![t] = <<>>]
          /\ UNCHANGED <<arg, last>>
     ELSE /\ held' = [held EXCEPT ![t] = <<>>]
          /\ Return(t, TRUE)
  /\ UNCHANGED <<files, nextId, known, ops, lForward, lBackward, lExists, cvars>>

\* the modifier of friendMethodsSymbolRemapIndex and writeIndexData; both
\* scopes of the index are left, then the next index or the end of the call
remapWrite(t) ==
  /\ pc[t] = "remap_locked"
  /\ index' = [index EXCEPT ![CurIndex(t)] = remapItems(EmptyIndex, CurIndex(t), buf[t], 1)]
  /\ IF pos[t] < NIdx
     THEN /\ held' = [held EXCEPT ![t] = SubSeq(@, 1, Len(@) - 2)]
          /\ pos' = [pos EXCEPT ![t] = @ + 1]
          /\ pc' = [pc EXCEPT ![t] = "remap_index"]
          /\ buf' = [buf EXCEPT ![t] = <<>>]
          /\ UNCHANGED <<arg, last>>
     ELSE /\ held' = [held EXCEPT ![t] = <<>>]
          /\ Return(t, TRUE)
  /\ UNCHANGED <<files, nextId, known, ops, lForward, lBackward, lExists, cvars>>

\* ------------------------------------------------- JsonDBIndex.readIndex
\* the index scan of exists / get / getOne / query
readIndex(t) ==
  \E n \in 1..NIdx : /\ Call(t, "read", NoId, <<>>, "read_wait")
                     /\ pos' = [pos EXCEPT ![t] = n]

\* lockMultiAccess on the index key and readIndexData
readIndexLock(t) ==
  /\ pc[t] = "read_wait"
  /\ CanLock(t, IndexKey(CurIndex(t)), FALSE)
  /\ held' = Lock(t, IndexKey(CurIndex(t)), FALSE)
  /\ buf' = [buf EXCEPT ![t] = index[CurIndex(t)]]
  /\ pc' = [pc EXCEPT ![t] = "read_locked"]
  /\ UNCHANGED <<files, index, nextId, known, arg, pos, last, ops, lForward, lBackward, lExists, cvars>>

\* the getter has run on the data read; the scope is left
readIndexDone(t) ==
  /\ pc[t] = "read_locked"
  /\ held' = Unlock(t)
  /\ Return(t, TRUE)
  /\ UNCHANGED <<files, index, nextId, known, ops, lForward, lBackward, lExists, cvars>>

\* ------------------------------------------------------------------- Next
Next == \E t \in Tasks :
          \/ insert(t) \/ insertLock(t) \/ insertWrite(t)
          \/ edit(t) \/ editLock(t) \/ editWrite(t)
          \/ delete(t) \/ deleteLock(t) \/ deleteUnlink(t)
          \/ clear(t) \/ clearLock(t) \/ clearUnlink(t) \/ clearIndexWrite(t)
          \/ remapIndex(t) \/ remapIndexLock(t) \/ remapGetAll(t) \/ remapWrite(t)
          \/ readIndex(t) \/ readIndexLock(t) \/ readIndexDone(t)
          \/ modifyIndex(t) \/ addItemWrite(t) \/ removeItemWrite(t)

Spec == Init /\ [][Next]_vars

\* a call that was issued keeps running: the event loop resumes every
\* continuation that is ready, and the mutex grants a lock that stays free
Step(t) == \/ insertLock(t) \/ insertWrite(t)
           \/ editLock(t) \/ editWrite(t)
           \/ deleteLock(t) \/ deleteUnlink(t)
           \/ clearLock(t) \/ clearUnlink(t) \/ clearIndexWrite(t)
           \/ remapIndexLock(t) \/ remapGetAll(t) \/ remapWrite(t)
           \/ readIndexLock(t) \/ readIndexDone(t)
           \/ modifyIndex(t) \/ addItemWrite(t) \/ removeItemWrite(t)

FairSpec == Spec /\ \A t \in Tasks : WF_vars(Step(t))

\* ======================================================================
\* LocalDBIndex (LevelDB backed), its getter and the LocalDB repository
\* ======================================================================
BaseKey == "base"                                  \* this.baseKey
LIndexName == "name"                               \* the indexed path
LRepoKey == <<BaseKey>>                            \* `${baseKey}`
LIndexKey == <<BaseKey, "index", LIndexName>>      \* `${baseKey}/index/${indexName}`
LBucketKey(k) == <<BaseKey, "index", LIndexName, k>>

\* parentDb.getAll(): the [key, entity] pairs stored before this index
\* is opened for the first time
LParent == << <<"1", WithId([name |-> "a"], "1")>>, <<"2", WithId([name |-> "a"], "2")>> >>

\* (await db.get(k))?.ids || []
LGetIds(fwd, k) == IF k \in DOMAIN fwd THEN fwd[k] ELSE <<>>

InitLocal == /\ files = <<>>
             /\ index = [i \in Indexes |-> EmptyIndex]
             /\ nextId = 0
             /\ known = {}
             /\ held = [t \in Tasks |-> <<>>]
             /\ pc = [t \in Tasks |-> "l_closed"]
             /\ arg = [t \in Tasks |-> NoArg]
             /\ pos = [t \in Tasks |-> 0]
             /\ buf = [t \in Tasks |-> <<>>]
             /\ last = [t \in Tasks |-> NoLast]
             /\ ops = 0
             /\ lForward = <<>>
             /\ lBackward = <<>>
             /\ lExists = FALSE
             /\ lData = <<>>
             /\ worker = [t \in Tasks |-> FALSE]
             /\ dbs = [p \in 0..NTasks |-> "none"]
             /\ referenceCounter = 0
             /\ dbLog = <<>>
             /\ handles = [t \in Tasks |-> 0]

\* LocalDBIndex.open: the stat of both store paths decides needsRemap
lOpen(t) ==
  /\ pc[t] = "l_closed"
  /\ arg' = [arg EXCEPT ![t] = [kind |-> "open", id |-> NoId, item |-> <<~lExists>>]]
  /\ pc' = [pc EXCEPT ![t] = "l_opening"]
  /\ UNCHANGED <<jvars, cvars, held, pos, buf, last, ops, lvars>>

\* LevelDBCluster.getInstance of both stores creates them; with needsRemap
\* parentDb.getAll() is read and the rebuild follows
lGetInstance(t) ==
  /\ pc[t] = "l_opening"
  /\ lExists' = TRUE
  /\ IF arg[t].item[1]
     THEN /\ buf' = [buf EXCEPT ![t] = LParent]
          /\ pc' = [pc EXCEPT ![t] = "l_remap_wait"]
          /\ UNCHANGED <<arg, pos, last>>
     ELSE Return(t, TRUE)
  /\ UNCHANGED <<jvars, cvars, held, ops, lForward, lBackward>>

\* LocalDB.remapIndex: lockSingleAccess on `${baseKey}`, then the rebuild
\* of the index from the stored entities
lRemapIndex(t) ==
  /\ Call(t, "remapIndex", NoId, <<>>, "l_repo_wait")
  /\ UNCHANGED pos

lRemapIndexLock(t) ==
  /\ pc[t] = "l_repo_wait"
  /\ CanLock(t, LRepoKey, TRUE)
  /\ held' = Lock(t, LRepoKey, TRUE)
  /\ buf' = [buf EXCEPT ![t] = LParent]
  /\ pc' = [pc EXCEPT ![t] = "l_remap_wait"]
  /\ UNCHANGED <<jvars, cvars, arg, pos, last, ops, lvars>>

\* friendMethodsSymbolRemapIndex: lockMultiAccess on the index key
lRemapLock(t) ==
  /\ pc[t] = "l_remap_wait"
  /\ CanLock(t, LIndexKey, FALSE)
  /\ held' = Lock(t, LIndexKey, FALSE)
  /\ pc' = [pc EXCEPT ![t] = "l_clear_fwd"]
  /\ UNCHANGED <<jvars, cvars, arg, pos, buf, last, ops, lvars>>

\* await this.dbForward.clear()
lClearForward(t) ==
  /\ pc[t] = "l_clear_fwd"
  /\ lForward' = <<>>
  /\ pc' = [pc EXCEPT ![t] = "l_clear_bwd"]
  /\ UNCHANGED <<jvars, cvars, held, arg, pos, buf, last, ops, lBackward, lExists>>

\* await this.dbBackward.clear()
lClearBackward(t) ==
  /\ pc[t] = "l_clear_bwd"
  /\ lBackward' = <<>>
  /\ pos' = [pos EXCEPT ![t] = 1]
  /\ pc' = [pc EXCEPT ![t] = "l_item_get"]
  /\ UNCHANGED <<jvars, cvars, held, arg, buf, last, ops, lForward, lExists>>

LItemKey(t) == serializeKeyByValue(getByExpression(buf[t][pos[t]][2], LIndexName))

\* const ids = (await this.dbForward.get(k))?.ids || []
lItemGet(t) ==
  /\ pc[t] = "l_item_get"
  /\ arg' = [arg EXCEPT ![t].item = LGetIds(lForward, LItemKey(t))]
  /\ pc' = [pc EXCEPT ![t] = "l_item_putf"]
  /\ UNCHANGED <<jvars, cvars, held, pos, buf, last, ops, lvars>>

\* ids.push(item[0]); await this.dbForward.put(k, { ids })
lItemPutForward(t) ==
  /\ pc[t] = "l_item_putf"
  /\ lForward' = SetKey(lForward, LItemKey(t), Append(arg[t].item, buf[t][pos[t]][1]))
  /\ pc' = [pc EXCEPT ![t] = "l_item_putb"]
  /\ UNCHANGED <<jvars, cvars, held, arg, pos, buf, last, ops, lBackward, lExists>>

\* await this.dbBackward.put(item[0], k); after the last item every scope
\* of the call is left
lItemPutBackward(t) ==
  /\ pc[t] = "l_item_putb"
  /\ lBackward' = SetKey(lBackward, buf[t][pos[t]][1], LItemKey(t))
  /\ IF pos[t] < Len(buf[t])
     THEN /\ pos' = [pos EXCEPT ![t] = @ + 1]
          /\ pc' = [pc EXCEPT ![t] = "l_item_get"]
          /\ UNCHANGED <<held, arg, buf, last>>
     ELSE /\ held' = [held EXCEPT ![t] = <<>>]
          /\ Return(t, TRUE)
  /\ UNCHANGED <<jvars, cvars, ops, lForward, lExists>>

\* LocalDBIndexGetter.get: lockMultiAccess on the index key
lGet(t) ==
  /\ \E value \in FieldValues[LIndexName] : Call(t, "get", serializeKeyByValue(value), <<>>, "l_get_wait")
  /\ UNCHANGED pos

lGetLock(t) ==
  /\ pc[t] = "l_get_wait"
  /\ CanLock(t, LIndexKey, FALSE)
  /\ held' = Lock(t, LIndexKey, FALSE)
  /\ pc' = [pc EXCEPT ![t] = "l_get_index"]
  /\ UNCHANGED <<jvars, cvars, arg, pos, buf, last, ops, lvars>>

\* LocalDBIndex.get: lockMultiAccess on the bucket key
lGetBucketLock(t) ==
  /\ pc[t] = "l_get_index"
  /\ CanLock(t, LBucketKey(arg[t].id), FALSE)
  /\ held' = Lock(t, LBucketKey(arg[t].id), FALSE)
  /\ pc' = [pc EXCEPT ![t] = "l_get_locked"]
  /\ UNCHANGED <<jvars, cvars, arg, pos, buf, last, ops, lvars>>

\* (await this.dbForward.get(k))?.ids || []; both scopes are left
lGetRead(t) ==
  /\ pc[t] = "l_get_locked"
  /\ held' = [held EXCEPT ![t] = <<>>]
  /\ pc' = [pc EXCEPT ![t] = "idle"]
  /\ last' = [last EXCEPT ![t] = [kind |-> "get", id |-> arg[t].id, ok |-> TRUE]]
  /\ buf' = [buf EXCEPT ![t] = LGetIds(lForward, arg[t].id)]
  /\ arg' = [arg EXCEPT ![t] = NoArg]
  /\ UNCHANGED <<jvars, cvars, pos, ops, lvars>>

NextLocal == \E t \in Tasks :
               \/ lOpen(t) \/ lGetInstance(t)
               \/ lRemapIndex(t) \/ lRemapIndexLock(t) \/ lRemapLock(t)
               \/ lClearForward(t) \/ lClearBackward(t)
               \/ lItemGet(t) \/ lItemPutForward(t) \/ lItemPutBackward(t)
               \/ lGet(t) \/ lGetLock(t) \/ lGetBucketLock(t) \/ lGetRead(t)

SpecLocal == InitLocal /\ [][NextLocal]_vars

\* ------------------------------------------------------------- invariants
Quiescent == \A t \in Tasks : pc[t] = "idle"

\* the handler of t has entered its scope and not yet left it
InHandler(t) == pc[t] \notin {"idle", "insert_wait", "edit_wait", "delete_wait", "clear_wait", "remap_wait", "read_wait"}

Mutating(t) == InHandler(t) /\ arg[t].kind \in {"insert", "edit", "delete", "clear", "remapIndex"}

\* t is inside the scope of JsonDBRepository.remapIndex
Rebuilding(t) == pc[t] \in {"remap_index", "remap_mod_wait", "remap_locked"}

\* t has written the entity of edit and is maintaining the indexes
EditIndexing(t) == arg[t].kind = "edit" /\ pc[t] \in {"rm_wait", "rm_locked", "add_wait", "add_locked"}

BucketsIn(data, id) == {k \in DOMAIN data.forward : Includes(data.forward[k], id)}

BucketsOf(i, id) == BucketsIn(index[i], id)

Occurrences(s, x) == Cardinality({n \in 1..Len(s) : s[n] = x})

KeyOf(id, i) == serializeKeyByValue(getByExpression(files[id], i))

Filed(i, id) == /\ BucketsOf(i, id) = {KeyOf(id, i)}
                /\ Occurrences(index[i].forward[KeyOf(id, i)], id) = 1
                /\ id \in DOMAIN index[i].backward
                /\ index[i].backward[id] = KeyOf(id, i)

I1 == \A id \in DOMAIN files : \A i \in Indexes : Filed(i, id)

I2 == \A i \in Indexes :
        /\ \A k \in DOMAIN index[i].forward : SeqToSet(index[i].forward[k]) \subseteq DOMAIN files
        /\ DOMAIN index[i].backward \subseteq DOMAIN files

Unlisted(id) == \A i \in Indexes : BucketsOf(i, id) = {} /\ id \notin DOMAIN index[i].backward

TypeOK == /\ DOMAIN files \subseteq Ids
          /\ nextId \in 0..MaxIds
          /\ ops \in 0..MaxOps
          /\ known \subseteq Ids

C2_NoOrphans == (\A t \in Tasks : ~Mutating(t)) => I2

\* one entity was deleted while another one is still stored and indexed
C2_Witness == /\ \A t \in Tasks : ~Mutating(t)
              /\ \E t \in Tasks : last[t].kind = "delete" /\ last[t].ok
              /\ \E id \in DOMAIN files : \A i \in Indexes : BucketsOf(i, id) # {}

\* C3: once the issued inserts have completed, each returned a distinct id, the
\* stored entities are exactly the inserted ones that were not removed since,
\* and for every index the bucket of a key lists, once each, exactly the
\* stored entities whose field encodes to that key.
C3_ConcurrentInserts ==
  Quiescent =>
    /\ known = {IdOf(n) : n \in 1..nextId}
    /\ Cardinality(known) = nextId
    /\ DOMAIN files \subseteq known
    /\ \A i \in Indexes : \A k \in DOMAIN index[i].forward :
         /\ SeqToSet(index[i].forward[k]) = {id \in DOMAIN files : KeyOf(id, i) = k}
         /\ Len(index[i].forward[k]) = Cardinality(SeqToSet(index[i].forward[k]))
    /\ \A i \in Indexes : \A id \in DOMAIN files : KeyOf(id, i) \in DOMAIN index[i].forward

\* two tasks have each inserted an entity with the same name: one bucket of 2
C3_Witness == /\ Quiescent
              /\ \A t \in Tasks : t <= 2 => last[t].kind = "insert"
              /\ Cardinality(DOMAIN files) = 2
              /\ "a" \in DOMAIN index["name"].forward
              /\ Len(index["name"].forward["a"]) = 2

\* C4: after several edits of one id have completed, the entity is filed in
\* exactly one bucket of each index, the one of the value finally stored, and
\* in no other bucket.
C4_ConcurrentEdits ==
  Quiescent =>
    \A t, u \in Tasks :
      (/\ t # u
       /\ last[t].kind = "edit" /\ last[t].ok
       /\ last[u].kind = "edit" /\ last[u].ok
       /\ last[t].id = last[u].id
       /\ last[t].id \in DOMAIN files)
      => \A i \in Indexes :
           /\ \A k \in DOMAIN index[i].forward :
                Includes(index[i].forward[k], last[t].id) <=> k = KeyOf(last[t].id, i)
           /\ Occurrences(index[i].forward[KeyOf(last[t].id, i)], last[t].id) = 1

\* two tasks have edited the same entity, which now has the name "b"
C4_Witness == /\ Quiescent
              /\ \E t, u \in Tasks : /\ t # u
                                     /\ last[t].kind = "edit" /\ last[t].ok
                                     /\ last[u].kind = "edit" /\ last[u].ok
                                     /\ last[t].id = last[u].id
                                     /\ last[t].id \in DOMAIN files
                                     /\ files[last[t].id]["name"] = "b"

\* C5: no insert, edit, delete or clear runs inside its scope while
\* remapIndex is inside its own, and once everything has completed after a
\* rebuild every stored entity is listed once under its current value and no
\* removed entity is listed.
C5_MutationsRacingRebuild ==
  /\ \A t, u \in Tasks : (t # u /\ Rebuilding(t)) => ~Mutating(u)
  /\ (Quiescent /\ \E t \in Tasks : last[t].kind = "remapIndex") =>
       /\ \A id \in DOMAIN files : \A i \in Indexes : Filed(i, id)
       /\ \A id \in Ids \ DOMAIN files : Unlisted(id)

\* a mutation was issued while the rebuild is running and waits for it
C5_Witness == \E t, u \in Tasks : /\ Rebuilding(t)
                                  /\ pc[u] \in {"insert_wait", "edit_wait", "delete_wait"}
                                  /\ DOMAIN files # {}

\* C7: rebuilds never overlap, and after concurrent rebuilds no forward
\* bucket lists an id twice and every stored entity is listed in the bucket of
\* its value.
C7_ConcurrentRemaps ==
  /\ \A t, u \in Tasks : (t # u /\ Rebuilding(t)) => ~Rebuilding(u)
  /\ (Quiescent /\ \E t, u \in Tasks : t # u /\ last[t].kind = "remapIndex" /\ last[u].kind = "remapIndex") =>
       \A i \in Indexes :
         /\ \A k \in DOMAIN index[i].forward : \A id \in SeqToSet(index[i].forward[k]) :
              Occurrences(index[i].forward[k], id) = 1
         /\ \A id \in DOMAIN files : /\ KeyOf(id, i) \in DOMAIN index[i].forward
                                     /\ Includes(index[i].forward[KeyOf(id, i)], id)

\* two tasks have rebuilt the indexes of a repository that holds an entity
C7_Witness == /\ Quiescent
              /\ \E t, u \in Tasks : t # u /\ last[t].kind = "remapIndex" /\ last[u].kind = "remapIndex"
              /\ \E id \in DOMAIN files : \A i \in Indexes : Filed(i, id)

\* C8: a remapIndex call that was issued returns, its scopes left; an insert
\* that waits while a rebuild runs returns too, its entity stored and filed in
\* every index.
C8_RemapTerminates ==
  /\ \A t \in Tasks : (arg[t].kind = "remapIndex") ~>
        (pc[t] = "idle" /\ last[t].kind = "remapIndex" /\ held[t] = <<>>)
  /\ \A u \in Tasks : (pc[u] = "insert_wait" /\ \E t \in Tasks : Rebuilding(t)) ~>
        (/\ pc[u] = "idle"
         /\ last[u].kind = "insert"
         /\ last[u].id \in DOMAIN files
         /\ \A i \in Indexes : Filed(i, last[u].id))

\* an insert waits for a rebuild that is inside the nested scope of an index
C8_Witness == \E t, u \in Tasks : /\ pc[t] = "remap_locked"
                                  /\ Len(held[t]) = 3
                                  /\ pc[u] = "insert_wait"

\* C9: an index scan that runs while edit(id) maintains the indexes finds id
\* in exactly one bucket.
C9_EditAtomicForReaders ==
  \A r, e \in Tasks :
    (pc[r] = "read_locked" /\ EditIndexing(e)) => Cardinality(BucketsIn(buf[r], arg[e].id)) = 1

\* C10: once a delete of id has succeeded and everything has completed, the
\* entity does not exist and no index lists it; an edit never maintains the
\* indexes for an entity that does not exist.
C10_EditDeleteRace ==
  /\ \A e \in Tasks : EditIndexing(e) => arg[e].id \in DOMAIN files
  /\ Quiescent =>
       \A t \in Tasks : (last[t].kind = "delete" /\ last[t].ok) =>
         /\ last[t].id \notin DOMAIN files
         /\ Unlisted(last[t].id)
  /\ Quiescent =>
       \A t \in Tasks : (last[t].kind = "edit" /\ last[t].ok) =>
         (last[t].id \in DOMAIN files \/ Unlisted(last[t].id))

\* a delete has succeeded and an edit of the same id has failed after it
C10_Witness == /\ Quiescent
               /\ \E t, u \in Tasks : /\ last[t].kind = "delete" /\ last[t].ok
                                      /\ last[u].kind = "edit" /\ ~last[u].ok
                                      /\ last[u].id = last[t].id

\* ---------------------------------------------------------- LocalDBIndex
\* t has cleared the forward store and not yet written the last entry
LRebuilding(t) == pc[t] \in {"l_clear_bwd", "l_item_get", "l_item_putf", "l_item_putb"}

LReading(t) == pc[t] \in {"l_get_index", "l_get_locked"}

\* C6: between the clearing of the maps by a rebuild and its last write, no
\* index read and no second rebuild of the same index executes.
C6_RebuildExclusive ==
  \A t, u \in Tasks : (t # u /\ LRebuilding(t)) => (~LReading(u) /\ ~LRebuilding(u))

\* ======================================================================
\* k concurrent delete(id) calls on one stored entity
\* ======================================================================
\* ------------------------------------------------- JsonDBRepository.exists
exists(t) ==
  \E id \in known : /\ Call(t, "exists", id, <<>>, "exists_wait") /\ UNCHANGED pos

\* lockMultiAccess on `${unique}/${id}`
existsLock(t) ==
  /\ pc[t] = "exists_wait"
  /\ CanLock(t, IdKey(arg[t].id), FALSE)
  /\ held' = Lock(t, IdKey(arg[t].id), FALSE)
  /\ pc' = [pc EXCEPT ![t] = "exists_stat"]
  /\ UNCHANGED <<files, index, nextId, known, arg, pos, buf, last, ops, lForward, lBackward, lExists, cvars>>

\* !!(await fs.stat(...).catch(() => false))
existsStat(t) ==
  /\ pc[t] = "exists_stat"
  /\ held' = Unlock(t)
  /\ Return(t, arg[t].id \in DOMAIN files)
  /\ UNCHANGED <<files, index, nextId, known, ops, lForward, lBackward, lExists, cvars>>

\* the repository after MaxIds calls of insert have returned, one after the
\* other
InitDeletes ==
  \E values \in [1..MaxIds -> Docs] :
    LET stored == [id \in Ids |-> WithId(values[CHOOSE n \in 1..MaxIds : IdOf(n) = id], id)]
    IN /\ files = stored
       /\ index = [i \in Indexes |-> remapItems(EmptyIndex, i, getAllRaw(stored, 1), 1)]
       /\ nextId = MaxIds
       /\ known = Ids
       /\ held = [t \in Tasks |-> <<>>]
       /\ pc = [t \in Tasks |-> "idle"]
       /\ arg = [t \in Tasks |-> NoArg]
       /\ pos = [t \in Tasks |-> 0]
       /\ buf = [t \in Tasks |-> <<>>]
       /\ last = [t \in Tasks |-> NoLast]
       /\ ops = 0
       /\ lForward = <<>>
       /\ lBackward = <<>>
       /\ lExists = FALSE
       /\ lData = <<>>
       /\ worker = [t \in Tasks |-> FALSE]
       /\ dbs = [p \in 0..NTasks |-> "none"]
       /\ referenceCounter = 0
       /\ dbLog = <<>>
       /\ handles = [t \in Tasks |-> 0]

\* every caller issues one delete, and may ask exists once it returned
NextDeletes == \E t \in Tasks :
                 \/ (last[t].kind = "none" /\ delete(t))
                 \/ deleteLock(t) \/ deleteUnlink(t)
                 \/ modifyIndex(t) \/ removeItemWrite(t)
                 \/ (last[t].kind = "delete" /\ exists(t))
                 \/ existsLock(t) \/ existsStat(t)

SpecDeletes == InitDeletes /\ [][NextDeletes]_vars

\* t has unlinked the entity and is removing it from the indexes
DeleteIndexing(t) == arg[t].kind = "delete" /\ pc[t] \in {"rm_wait", "rm_locked"}

\* the delete of every caller has returned
AllDeletesDone == \A t \in Tasks : last[t].kind = "delete" /\ arg[t].kind \in {"none", "exists"}

\* the callers whose delete was a delete of id
DeletersOf(id) == {t \in Tasks : last[t].kind = "delete" /\ last[t].id = id}

\* C11: of the concurrent delete(id) calls on one stored entity at most one
\* removes index entries, and once all have returned exactly one has succeeded,
\* the others have failed, the entity does not exist (exists(id) finds no
\* file) and no index lists the id.
C11_ConcurrentDeletes ==
  /\ \A t, u \in Tasks : (t # u /\ DeleteIndexing(t) /\ DeleteIndexing(u)) => arg[t].id # arg[u].id
  /\ \A t, u \in Tasks : (DeleteIndexing(t) /\ last[u].kind = "delete" /\ last[u].id = arg[t].id) => ~last[u].ok
  /\ AllDeletesDone =>
       \A id \in Ids : DeletersOf(id) # {} =>
         /\ Cardinality({t \in DeletersOf(id) : last[t].ok}) = 1
         /\ id \notin DOMAIN files
         /\ Unlisted(id)
  /\ \A t \in Tasks :
       (pc[t] = "exists_stat" /\ last[t].kind = "delete" /\ last[t].id = arg[t].id)
       => arg[t].id \notin DOMAIN files

\* all callers have deleted the same entity: one succeeded, another failed
C11_Witness == /\ Quiescent
               /\ AllDeletesDone
               /\ \E t, u \in Tasks : last[t].ok /\ ~last[u].ok /\ last[t].id = last[u].id

\* ======================================================================
\* LevelDB (reference counted storage handle) and LevelDBCluster
\* ======================================================================
\* the process a caller runs in: 0 is the non-worker process, every worker
\* caller runs in a worker process of its own
Proc(t) == IF worker[t] THEN t ELSE 0

\* (db.open() is called by every logical open)
openAlways(db, p) ==
  [referenceCounter |-> db.referenceCounter + 1,
   log |-> Append(db.log, [call |-> "open", by |-> p])]

\* LevelDB.open, run by process p: referenceCounter++ > 0 returns, else
\* db.open() is called
open(db, p) ==
  [referenceCounter |-> db.referenceCounter + 1,
   log |-> IF db.referenceCounter > 0 THEN db.log ELSE Append(db.log, [call |-> "open", by |-> p])]

\* LevelDB.close, run by process p: --referenceCounter > 0 returns, else
\* db.close() is called
close(db, p) ==
  [referenceCounter |-> db.referenceCounter - 1,
   log |-> IF db.referenceCounter - 1 > 0 THEN db.log ELSE Append(db.log, [call |-> "close", by |-> p])]

\* the LevelDB object of the owner
TheDb == [referenceCounter |-> referenceCounter, log |-> dbLog]

\* the processes of the cluster: any caller may run in a worker
InitCluster ==
  /\ files = <<>>
  /\ index = [i \in Indexes |-> EmptyIndex]
  /\ nextId = 0
  /\ known = {}
  /\ held = [t \in Tasks |-> <<>>]
  /\ pc = [t \in Tasks |-> "idle"]
  /\ arg = [t \in Tasks |-> NoArg]
  /\ pos = [t \in Tasks |-> 0]
  /\ buf = [t \in Tasks |-> <<>>]
  /\ last = [t \in Tasks |-> NoLast]
  /\ ops = 0
  /\ lForward = <<>>
  /\ lBackward = <<>>
  /\ lExists = FALSE
  /\ lData = <<>>
  /\ worker \in [Tasks -> BOOLEAN]
  /\ dbs = [p \in 0..NTasks |-> "none"]
  /\ referenceCounter = 0
  /\ dbLog = <<>>
  /\ handles = [t \in Tasks |-> 0]

\* LevelDBCluster.getInstance(unique, dbPath) is called
getInstance(t) ==
  /\ Call(t, "getInstance", NoId, <<>>, "gi_check")
  /\ UNCHANGED pos

\* (the store is constructed in whatever process asks for it)
getInstanceAnywhere(t) ==
  /\ pc[t] = "gi_check"
  /\ LET db == open(TheDb, IF worker[t] THEN t ELSE 0)
     IN /\ dbs' = [dbs EXCEPT ![IF worker[t] THEN t ELSE 0] = "local"]
        /\ referenceCounter' = db.referenceCounter
        /\ dbLog' = db.log
        /\ handles' = [handles EXCEPT ![t] = @ + 1]
        /\ Return(t, TRUE)
  /\ UNCHANGED <<jvars, held, ops, lvars, lData, worker>>

\* getInstance in the calling process: a known store is opened (a proxy
\* forwards the open to the owner); the non-worker process constructs the
\* LevelDB and opens it; a worker asks the owner for the instance
getInstanceLocal(t) ==
  /\ pc[t] = "gi_check"
  /\ IF dbs[Proc(t)] = "proxy"
     THEN /\ pc' = [pc EXCEPT ![t] = "gi_open_rpc"]
          /\ UNCHANGED <<arg, pos, buf, last, dbs, referenceCounter, dbLog, handles>>
     ELSE IF dbs[Proc(t)] = "local" \/ ~worker[t]
          THEN LET db == open(TheDb, Proc(t))
               IN /\ dbs' = [dbs EXCEPT ![Proc(t)] = "local"]
                  /\ referenceCounter' = db.referenceCounter
                  /\ dbLog' = db.log
                  /\ handles' = [handles EXCEPT ![t] = @ + 1]
                  /\ Return(t, TRUE)
          ELSE /\ pc' = [pc EXCEPT ![t] = "gi_rpc"]
               /\ UNCHANGED <<arg, pos, buf, last, dbs, referenceCounter, dbLog, handles>>
  /\ UNCHANGED <<jvars, held, ops, lvars, lData, worker>>

\* LevelDBCluster.handler.as().getInstance(unique, dbPath): the owner runs
\* getInstance for the worker, which constructs the store if needed and opens it
getInstanceRemote(t) ==
  /\ pc[t] = "gi_rpc"
  /\ LET db == open(TheDb, 0)
     IN /\ dbs' = [dbs EXCEPT ![0] = "local"]
        /\ referenceCounter' = db.referenceCounter
        /\ dbLog' = db.log
  /\ pc' = [pc EXCEPT ![t] = "gi_proxy"]
  /\ UNCHANGED <<jvars, held, arg, pos, buf, last, ops, lvars, lData, worker, handles>>

\* the worker binds a proxy to the channel of the store and calls its open()
getInstanceProxy(t) ==
  /\ pc[t] = "gi_proxy"
  /\ dbs' = [dbs EXCEPT ![Proc(t)] = "proxy"]
  /\ pc' = [pc EXCEPT ![t] = "gi_open_rpc"]
  /\ UNCHANGED <<jvars, held, arg, pos, buf, last, ops, lvars, lData, worker, referenceCounter, dbLog, handles>>

\* the open() of a proxy runs LevelDB.open in the owner; getInstance returns
openRemote(t) ==
  /\ pc[t] = "gi_open_rpc"
  /\ LET db == open(TheDb, 0)
     IN /\ referenceCounter' = db.referenceCounter
        /\ dbLog' = db.log
  /\ handles' = [handles EXCEPT ![t] = @ + 1]
  /\ Return(t, TRUE)
  /\ UNCHANGED <<jvars, held, ops, lvars, lData, worker, dbs>>

\* a holder calls close() on a handle it got from getInstance
closeHandle(t) ==
  /\ handles[t] > 0
  /\ Call(t, "close", NoId, <<>>, "close_call")
  /\ UNCHANGED pos

\* close() of the LevelDB in the owner, or of a proxy, which forwards it
closeLocal(t) ==
  /\ pc[t] = "close_call"
  /\ IF dbs[Proc(t)] = "local"
     THEN LET db == close(TheDb, Proc(t))
          IN /\ referenceCounter' = db.referenceCounter
             /\ dbLog' = db.log
             /\ handles' = [handles EXCEPT ![t] = @ - 1]
             /\ Return(t, TRUE)
     ELSE /\ pc' = [pc EXCEPT ![t] = "close_rpc"]
          /\ UNCHANGED <<arg, pos, buf, last, referenceCounter, dbLog, handles>>
  /\ UNCHANGED <<jvars, held, ops, lvars, lData, worker, dbs>>

\* the close() of a proxy runs LevelDB.close in the owner
closeRemote(t) ==
  /\ pc[t] = "close_rpc"
  /\ LET db == close(TheDb, 0)
     IN /\ referenceCounter' = db.referenceCounter
        /\ dbLog' = db.log
  /\ handles' = [handles EXCEPT ![t] = @ - 1]
  /\ Return(t, TRUE)
  /\ UNCHANGED <<jvars, held, ops, lvars, lData, worker, dbs>>

NextCluster == \E t \in Tasks :
                 \/ getInstance(t) \/ getInstanceLocal(t) \/ getInstanceRemote(t)
                 \/ getInstanceProxy(t) \/ openRemote(t)
                 \/ closeHandle(t) \/ closeLocal(t) \/ closeRemote(t)

SpecCluster == InitCluster /\ [][NextCluster]_vars

\* db.open() was the last call made on the physical store
PhysicallyOpen == Len(dbLog) > 0 /\ dbLog[Len(dbLog)].call = "open"

\* C12: db.open() and db.close() alternate on the physical store, starting
\* with an open; the store is physically open exactly while the reference
\* counter is positive; and it is open as long as some holder has a handle it
\* has not closed.
C12_ReferenceCounting ==
  /\ \A n \in 1..Len(dbLog) : dbLog[n].call = (IF n % 2 = 1 THEN "open" ELSE "close")
  /\ referenceCounter >= 0
  /\ PhysicallyOpen <=> referenceCounter > 0
  /\ \A t \in Tasks : handles[t] > 0 => PhysicallyOpen

\* two holders in the owner process opened the store; one has closed it, the
\* other still holds it, and the store was physically opened once
C12_Witness == /\ \E t, u \in Tasks : /\ t # u /\ ~worker[t] /\ ~worker[u]
                                      /\ last[t].kind = "close" /\ pc[t] = "idle"
                                      /\ handles[t] = 0 /\ handles[u] = 1
               /\ Len(dbLog) = 1
               /\ referenceCounter = 1

\* C13: once every holder has closed every handle it got from getInstance, the
\* reference counter of the owner is 0 and the physical store is closed.
C13_ClosesWithLastHolder ==
  (Quiescent /\ \A t \in Tasks : handles[t] = 0) => (referenceCounter = 0 /\ ~PhysicallyOpen)

\* C14: only the non-worker process constructs a LevelDB; a worker holds a
\* proxy at most, and every db.open() / db.close() of the physical store is
\* made by the non-worker process.
C14_SingleOwner ==
  /\ \A p \in 1..NTasks : dbs[p] # "local"
  /\ dbs[0] # "proxy"
  /\ \A n \in 1..Len(dbLog) : dbLog[n].by = 0
  /\ \A t \in Tasks : (worker[t] /\ handles[t] > 0) => (dbs[t] = "proxy" /\ dbs[0] = "local")

\* a worker holds a handle: it is a proxy, the owner has opened the store
C14_Witness == \E t \in Tasks : /\ worker[t]
                                /\ handles[t] > 0
                                /\ dbs[t] = "proxy"
                                /\ dbs[0] = "local"
                                /\ PhysicallyOpen

\* ======================================================================
\* LocalDB.insert from several processes sharing one database
\* ======================================================================
\* the value of the indexed field of the entities process t inserts
WorkerId(t) == "w" \o ToString(t)

\* the ids insert has returned to process t
InsertedBy(t) == {id \in known : lData[id][LIndexName] = WorkerId(t)}

\* every process has opened the database; the index exists and is empty
InitInserts ==
  /\ files = <<>>
  /\ index = [i \in Indexes |-> EmptyIndex]
  /\ nextId = 0
  /\ known = {}
  /\ held = [t \in Tasks |-> <<>>]
  /\ pc = [t \in Tasks |-> "idle"]
  /\ arg = [t \in Tasks |-> NoArg]
  /\ pos = [t \in Tasks |-> 0]
  /\ buf = [t \in Tasks |-> <<>>]
  /\ last = [t \in Tasks |-> NoLast]
  /\ ops = 0
  /\ lForward = <<>>
  /\ lBackward = <<>>
  /\ lExists = TRUE
  /\ lData = <<>>
  /\ worker = [t \in Tasks |-> FALSE]
  /\ dbs = [p \in 0..NTasks |-> "none"]
  /\ referenceCounter = 0
  /\ dbLog = <<>>
  /\ handles = [t \in Tasks |-> 0]

\* LocalDB.insert: createRandomId, value = { ...data, $id: id }, and the
\* db.put is issued (process t inserts MaxIds entities, one after the other)
lInsert(t) ==
  /\ pc[t] = "idle"
  /\ Cardinality(InsertedBy(t)) < MaxIds
  /\ nextId' = nextId + 1
  /\ arg' = [arg EXCEPT ![t] = [kind |-> "insert", id |-> IdOf(nextId + 1),
                                item |-> WithId(SetKey(<<>>, LIndexName, WorkerId(t)), IdOf(nextId + 1))]]
  /\ pc' = [pc EXCEPT ![t] = "li_put"]
  /\ UNCHANGED <<files, index, known, held, pos, buf, last, ops, lvars, cvars>>

\* await this.db.put(id, value)
lInsertPut(t) ==
  /\ pc[t] = "li_put"
  /\ lData' = SetKey(lData, arg[t].id, arg[t].item)
  /\ pc' = [pc EXCEPT ![t] = "li_add_wait"]
  /\ UNCHANGED <<jvars, held, arg, pos, buf, last, ops, lvars, worker, dbs, referenceCounter, dbLog, handles>>

\* friendMethodsSymbolAddItem: lockSingleAccess on the bucket key
lAddItemLock(t) ==
  /\ pc[t] = "li_add_wait"
  /\ CanLock(t, LBucketKey(serializeKeyByValue(getByExpression(arg[t].item, LIndexName))), TRUE)
  /\ held' = Lock(t, LBucketKey(serializeKeyByValue(getByExpression(arg[t].item, LIndexName))), TRUE)
  /\ pc' = [pc EXCEPT ![t] = "li_add_get"]
  /\ UNCHANGED <<jvars, cvars, arg, pos, buf, last, ops, lvars>>

\* const ids = (await this.dbForward.get(k))?.ids || []; an id that is
\* listed already ends the call
lAddItemGet(t) ==
  /\ pc[t] = "li_add_get"
  /\ LET ids == LGetIds(lForward, serializeKeyByValue(getByExpression(arg[t].item, LIndexName)))
     IN IF Includes(ids, arg[t].id)
        THEN /\ held' = Unlock(t)
             /\ known' = known \cup {arg[t].id}
             /\ Return(t, TRUE)
        ELSE /\ buf' = [buf EXCEPT ![t] = ids]
             /\ pc' = [pc EXCEPT ![t] = "li_add_putf"]
             /\ UNCHANGED <<known, held, arg, pos, last>>
  /\ UNCHANGED <<files, index, nextId, cvars, ops, lvars>>

\* (the bucket is written with the new id only)
lAddItemPutForwardAlone(t) ==
  /\ pc[t] = "li_add_putf"
  /\ lForward' = SetKey(lForward, serializeKeyByValue(getByExpression(arg[t].item, LIndexName)), <<arg[t].id>>)
  /\ pc' = [pc EXCEPT ![t] = "li_add_putb"]
  /\ UNCHANGED <<jvars, cvars, held, arg, pos, buf, last, ops, lBackward, lExists>>

\* ids.push(item.$id); await this.dbForward.put(k, { ids })
lAddItemPutForward(t) ==
  /\ pc[t] = "li_add_putf"
  /\ lForward' = SetKey(lForward, serializeKeyByValue(getByExpression(arg[t].item, LIndexName)), Append(buf[t], arg[t].id))
  /\ pc' = [pc EXCEPT ![t] = "li_add_putb"]
  /\ UNCHANGED <<jvars, cvars, held, arg, pos, buf, last, ops, lBackward, lExists>>

\* await this.dbBackward.put(item.$id, k); the scope is left, insert returns id
lAddItemPutBackward(t) ==
  /\ pc[t] = "li_add_putb"
  /\ lBackward' = SetKey(lBackward, arg[t].id, serializeKeyByValue(getByExpression(arg[t].item, LIndexName)))
  /\ held' = Unlock(t)
  /\ known' = known \cup {arg[t].id}
  /\ Return(t, TRUE)
  /\ UNCHANGED <<files, index, nextId, cvars, ops, lForward, lExists>>

NextInserts == \E t \in Tasks :
                 \/ lInsert(t) \/ lInsertPut(t)
                 \/ lAddItemLock(t) \/ lAddItemGet(t)
                 \/ lAddItemPutForward(t) \/ lAddItemPutBackward(t)

SpecInserts == InitInserts /\ [][NextInserts]_vars

\* every process has inserted its MaxIds entities
AllInserted == \A t \in Tasks : pc[t] = "idle" /\ Cardinality(InsertedBy(t)) = MaxIds

\* C15: once every process has inserted its m entities, the database holds
\* exactly (processes x m) entities under pairwise distinct ids, and the bucket
\* of each process's id lists exactly the m entities that process inserted,
\* once each.
C15_ClusterInserts ==
  AllInserted =>
    /\ Cardinality(DOMAIN lData) = NTasks * MaxIds
    /\ Cardinality(known) = NTasks * MaxIds
    /\ DOMAIN lData = known
    /\ \A t \in Tasks :
         /\ SeqToSet(LGetIds(lForward, WorkerId(t))) = InsertedBy(t)
         /\ Len(LGetIds(lForward, WorkerId(t))) = MaxIds
         /\ \A id \in InsertedBy(t) : id \in DOMAIN lBackward /\ lBackward[id] = WorkerId(t)

\* all processes are done and their inserts were interleaved: the first
\* process does not own the first ids
C15_Witness == /\ AllInserted
               /\ \E t, u \in Tasks : /\ t # u
                                      /\ lBackward[IdOf(1)] = WorkerId(t)
                                      /\ lBackward[IdOf(2)] = WorkerId(u)

\* ======================================================================
\* Entities with typed field values: what JSON.stringify / JSON.parse keep
\* ======================================================================
\* JavaScript values: kind, the text of a scalar, the members of an object
\* (by key) or of an array (by index)
Str(s) == [kind |-> "string", text |-> s, members |-> <<>>]
Num(s) == [kind |-> "number", text |-> s, members |-> <<>>]
Bool(s) == [kind |-> "boolean", text |-> s, members |-> <<>>]
Null == [kind |-> "null", text |-> "", members |-> <<>>]
UndefinedValue == [kind |-> "undefined", text |-> "", members |-> <<>>]
\* new Date(ms)
DateOf(ms) == [kind |-> "date", text |-> ms, members |-> <<>>]
Obj(f) == [kind |-> "object", text |-> "", members |-> f]
Arr(f) == [kind |-> "array", text |-> "", members |-> f]

\* Date.prototype.toISOString
toISOString(ms) == CASE ms = "0" -> "1970-01-01T00:00:00.000Z"

\* JSON.stringify(value): a Date is written as its ISO string, an undefined
\* or function member of an object is left out, an undefined or function
\* element of an array is null
RECURSIVE JSONstringify(_)
JSONstringify(v) ==
  CASE v.kind = "date" -> Str(toISOString(v.text))
    [] v.kind = "object" ->
         Obj([k \in {m \in DOMAIN v.members : v.members[m].kind \notin {"undefined", "function"}} |->
                JSONstringify(v.members[k])])
    [] v.kind = "array" ->
         Arr([k \in DOMAIN v.members |-> IF v.members[k].kind \in {"undefined", "function"}
                                         THEN Null ELSE JSONstringify(v.members[k])])
    [] OTHER -> v

\* JSON.parse(data): strings stay strings, nothing is revived
JSONparse(data) == data

\* the values callers store in a field
Scalars == {Str("a"), Num("1"), Bool("true"), Null, DateOf("0")}
DocValues == Scalars
             \cup {Obj(SetKey(<<>>, "n", s)) : s \in {Str("a"), Num("1")}}
             \cup {Arr(SetKey(<<>>, "0", s)) : s \in {Str("a"), Null}}

CustomId == "custom-id"

\* the entities handed to insert: one field, and one entity that brings a $id
Entities == {SetKey(<<>>, "value", v) : v \in DocValues}
            \cup {SetKey(SetKey(<<>>, "value", Str("a")), "$id", Str(CustomId))}

\* the partial data handed to edit
DocPatches == {SetKey(<<>>, "value", v) : v \in {Str("b"), Null, UndefinedValue, Obj(SetKey(<<>>, "m", Num("1")))}}
              \cup {SetKey(<<>>, "other", Str("b"))}
              \cup {SetKey(SetKey(<<>>, "value", Str("b")), "$id", Str(CustomId))}

\* ({ $id: id, ...value }: a $id of the caller wins)
ItemOfKeepId(value, id) == [k \in DOMAIN value \cup {"$id"} |-> IF k \in DOMAIN value THEN value[k] ELSE Str(id)]

\* { ...value, $id: id }
ItemOf(value, id) == [k \in DOMAIN value \cup {"$id"} |-> IF k = "$id" THEN Str(id) ELSE value[k]]

\* (objects present on both sides are merged member by member)
MergeOfDeep(oldData, value, id) ==
  [k \in DOMAIN oldData \cup DOMAIN value \cup {"$id"} |->
     IF k = "$id" THEN Str(id)
     ELSE IF k \notin DOMAIN value THEN oldData[k]
     ELSE IF k \in DOMAIN oldData /\ oldData[k].kind = "object" /\ value[k].kind = "object"
          THEN Obj([m \in DOMAIN oldData[k].members \cup DOMAIN value[k].members |->
                      IF m \in DOMAIN value[k].members THEN value[k].members[m] ELSE oldData[k].members[m]])
          ELSE value[k]]

\* { ...oldData, ...value, $id: id }
MergeOf(oldData, value, id) ==
  [k \in DOMAIN oldData \cup DOMAIN value \cup {"$id"} |->
     IF k = "$id" THEN Str(id)
     ELSE IF k \in DOMAIN value THEN value[k] ELSE oldData[k]]

\* a repository without indexes, opened on an empty directory; files holds
\* the JSON text of each entity file
InitDocs ==
  /\ files = <<>>
  /\ index = [i \in Indexes |-> EmptyIndex]
  /\ nextId = 0
  /\ known = {}
  /\ held = [t \in Tasks |-> <<>>]
  /\ pc = [t \in Tasks |-> "idle"]
  /\ arg = [t \in Tasks |-> NoArg]
  /\ pos = [t \in Tasks |-> 0]
  /\ buf = [t \in Tasks |-> <<>>]
  /\ last = [t \in Tasks |-> NoLast]
  /\ ops = 0
  /\ lForward = <<>>
  /\ lBackward = <<>>
  /\ lExists = FALSE
  /\ lData = <<>>
  /\ worker = [t \in Tasks |-> FALSE]
  /\ dbs = [p \in 0..NTasks |-> "none"]
  /\ referenceCounter = 0
  /\ dbLog = <<>>
  /\ handles = [t \in Tasks |-> 0]

\* a caller runs `id = await db.insert(E)`, then optionally one
\* `await db.edit(id, p)`, then `doc = await db.getOne(id)`; arg keeps the
\* caller's E, p and the stored data the edit has read
docInsert(t) ==
  /\ pc[t] \in {"idle", "d_got"}
  /\ ops < MaxOps
  /\ nextId + Cardinality({u \in Tasks : pc[u] \in {"d_insert_wait", "d_insert_write"}}) < MaxIds
  /\ \E value \in Entities : arg' = [arg EXCEPT ![t] = [kind |-> "insert", id |-> NoId, item |-> <<value>>]]
  /\ ops' = ops + 1
  /\ buf' = [buf EXCEPT ![t] = <<>>]
  /\ pc' = [pc EXCEPT ![t] = "d_insert_wait"]
  /\ UNCHANGED <<files, index, nextId, known, held, pos, last, lvars, cvars>>

docInsertLock(t) ==
  /\ pc[t] = "d_insert_wait"
  /\ CanLock(t, InsertKey, TRUE)
  /\ held' = Lock(t, InsertKey, TRUE)
  /\ pc' = [pc EXCEPT ![t] = "d_insert_write"]
  /\ UNCHANGED <<files, index, nextId, known, arg, pos, buf, last, ops, lvars, cvars>>

\* createRandomId, item = { ...value, $id: id }, writeFile(JSON.stringify(item))
docInsertWrite(t) ==
  /\ pc[t] = "d_insert_write"
  /\ LET id == IdOf(nextId + 1)
     IN /\ nextId' = nextId + 1
        /\ files' = SetKey(files, id, JSONstringify(Obj(ItemOf(arg[t].item[1], id))))
        /\ known' = known \cup {id}
        /\ arg' = [arg EXCEPT ![t].id = id]
        /\ last' = [last EXCEPT ![t] = [kind |-> "insert", id |-> id, ok |-> TRUE]]
  /\ held' = Unlock(t)
  /\ pc' = [pc EXCEPT ![t] = "d_inserted"]
  /\ UNCHANGED <<index, pos, buf, ops, lvars, cvars>>

docEdit(t) ==
  /\ pc[t] = "d_inserted"
  /\ arg[t].kind = "insert"
  /\ ops < MaxOps
  /\ \E value \in DocPatches : arg' = [arg EXCEPT ![t] = [kind |-> "edit", id |-> @.id, item |-> <<@.item[1], value>>]]
  /\ ops' = ops + 1
  /\ pc' = [pc EXCEPT ![t] = "d_edit_wait"]
  /\ UNCHANGED <<files, index, nextId, known, held, pos, buf, last, lvars, cvars>>

docEditLock(t) ==
  /\ pc[t] = "d_edit_wait"
  /\ CanLock(t, IdKey(arg[t].id), TRUE)
  /\ held' = Lock(t, IdKey(arg[t].id), TRUE)
  /\ pc' = [pc EXCEPT ![t] = "d_edit_write"]
  /\ UNCHANGED <<files, index, nextId, known, arg, pos, buf, last, ops, lvars, cvars>>

\* stat, oldData = JSON.parse(readFile), item = { ...oldData, ...value, $id: id },
\* writeFile(JSON.stringify(item))
docEditWrite(t) ==
  /\ pc[t] = "d_edit_write"
  /\ IF arg[t].id \notin DOMAIN files
     THEN /\ last' = [last EXCEPT ![t] = [kind |-> "edit", id |-> arg[t].id, ok |-> FALSE]]
          /\ UNCHANGED <<files, arg>>
     ELSE LET oldData == JSONparse(files[arg[t].id]).members
              item == MergeOf(oldData, arg[t].item[2], arg[t].id)
          IN /\ files' = SetKey(files, arg[t].id, JSONstringify(Obj(item)))
             /\ arg' = [arg EXCEPT ![t].item = <<@[1], @[2], oldData>>]
             /\ last' = [last EXCEPT ![t] = [kind |-> "edit", id |-> arg[t].id, ok |-> TRUE]]
  /\ held' = Unlock(t)
  /\ pc' = [pc EXCEPT ![t] = "d_inserted"]
  /\ UNCHANGED <<index, nextId, known, pos, buf, ops, lvars, cvars>>

docGetOne(t) ==
  /\ pc[t] = "d_inserted"
  /\ ops < MaxOps
  /\ ops' = ops + 1
  /\ pc' = [pc EXCEPT ![t] = "d_getone_wait"]
  /\ UNCHANGED <<files, index, nextId, known, held, arg, pos, buf, last, lvars, cvars>>

\* lockMultiAccess on `${unique}/${id}`
docGetOneLock(t) ==
  /\ pc[t] = "d_getone_wait"
  /\ CanLock(t, IdKey(arg[t].id), FALSE)
  /\ held' = Lock(t, IdKey(arg[t].id), FALSE)
  /\ pc' = [pc EXCEPT ![t] = "d_getone_raw"]
  /\ UNCHANGED <<files, index, nextId, known, arg, pos, buf, last, ops, lvars, cvars>>

\* getOneRaw: stat, JSON.parse(readFile); null for a missing file
docGetOneRaw(t) ==
  /\ pc[t] = "d_getone_raw"
  /\ buf' = [buf EXCEPT ![t] = IF arg[t].id \in DOMAIN files
                               THEN JSONparse(files[arg[t].id]).members
                               ELSE <<>>]
  /\ held' = Unlock(t)
  /\ pc' = [pc EXCEPT ![t] = "d_got"]
  /\ UNCHANGED <<files, index, nextId, known, arg, pos, last, ops, lvars, cvars>>

NextDocs == \E t \in Tasks :
              \/ docInsert(t) \/ docInsertLock(t) \/ docInsertWrite(t)
              \/ docEdit(t) \/ docEditLock(t) \/ docEditWrite(t)
              \/ docGetOne(t) \/ docGetOneLock(t) \/ docGetOneRaw(t)

SpecDocs == InitDocs /\ [][NextDocs]_vars

\* C16: getOne(insert(E)) returns E with the assigned $id added, every field
\* value equal to the inserted one.
C16_RoundTrip ==
  \A t \in Tasks : (pc[t] = "d_got" /\ arg[t].kind = "insert")
                   => buf[t] = ItemOf(arg[t].item[1], arg[t].id)

\* C18: after edit(id, p) the entity has for every top-level key of p exactly
\* p's value (a nested object is replaced wholesale, null is stored, a key
\* edited to undefined reads as undefined) and for every other key the value
\* it had before.
C18_ShallowMerge ==
  \A t \in Tasks :
    (pc[t] = "d_got" /\ arg[t].kind = "edit")
    => LET p == arg[t].item[2]
           before == arg[t].item[3]
           doc == buf[t]
       IN /\ \A k \in DOMAIN p \ {"$id"} :
               IF p[k].kind = "undefined"
               THEN k \notin DOMAIN doc
               ELSE k \in DOMAIN doc /\ doc[k] = p[k]
          /\ \A k \in DOMAIN before \ DOMAIN p : k \in DOMAIN doc /\ doc[k] = before[k]
          /\ DOMAIN doc \subseteq DOMAIN before \cup DOMAIN p

\* an edit has replaced a nested object by another nested object and the
\* caller has read the entity back
C18_Witness ==
  \E t \in Tasks :
    /\ pc[t] = "d_got"
    /\ arg[t].kind = "edit"
    /\ "value" \in DOMAIN arg[t].item[2]
    /\ arg[t].item[2]["value"].kind = "object"
    /\ arg[t].item[3]["value"].kind = "object"
    /\ DOMAIN buf[t]["value"].members = {"m"}

\* C19: the $id of an entity is the id insert has assigned: a $id in the data
\* handed to insert or to edit is ignored, and no entity is stored under it.
C19_IdImmutable ==
  /\ \A id \in DOMAIN files : JSONparse(files[id]).members["$id"] = Str(id)
  /\ DOMAIN files \subseteq {IdOf(n) : n \in 1..nextId}
  /\ \A t \in Tasks : pc[t] = "d_got" => buf[t]["$id"] = Str(arg[t].id)

\* an entity inserted with a $id of the caller and edited with a $id of the
\* caller has been read back
C19_Witness ==
  \E t \in Tasks :
    /\ pc[t] = "d_got"
    /\ arg[t].kind = "edit"
    /\ "$id" \in DOMAIN arg[t].item[1]
    /\ "$id" \in DOMAIN arg[t].item[2]
    /\ arg[t].item[2]["$id"] # buf[t]["$id"]

\* ======================================================================
\* Calls with ids that are not stored
\* ======================================================================
\* an id no insert has ever returned
MissingId == "non-existent-id"

\* the ids callers pass: ids insert has returned (stored or deleted since)
\* and an id that never existed
CallerIds == known \cup {MissingId}

\* ------------------------------------------------- JsonDBRepository.getOne
getOne(t) ==
  \E id \in CallerIds : /\ Call(t, "getOne", id, <<>>, "getone_wait") /\ UNCHANGED pos

\* lockMultiAccess on `${unique}/${id}`
getOneLock(t) ==
  /\ pc[t] = "getone_wait"
  /\ CanLock(t, IdKey(arg[t].id), FALSE)
  /\ held' = Lock(t, IdKey(arg[t].id), FALSE)
  /\ pc' = [pc EXCEPT ![t] = "getone_raw"]
  /\ UNCHANGED <<files, index, nextId, known, arg, pos, buf, last, ops, lForward, lBackward, lExists, cvars>>

\* getOneRaw: null when stat finds no file (ok = FALSE stands for the null
\* result), the parsed entity otherwise
getOneRaw(t) ==
  /\ pc[t] = "getone_raw"
  /\ held' = Unlock(t)
  /\ Return(t, arg[t].id \in DOMAIN files)
  /\ UNCHANGED <<files, index, nextId, known, ops, lForward, lBackward, lExists, cvars>>

\* edit and delete called with any id a caller may pass
editById(t) ==
  \E id \in CallerIds, value \in Patches : /\ Call(t, "edit", id, value, "edit_wait") /\ UNCHANGED pos

deleteById(t) ==
  \E id \in CallerIds : /\ Call(t, "delete", id, <<>>, "delete_wait") /\ UNCHANGED pos

NextMissing == \E t \in Tasks :
                 \/ getOne(t) \/ getOneLock(t) \/ getOneRaw(t)
                 \/ editById(t) \/ editLock(t) \/ editWrite(t)
                 \/ deleteById(t) \/ deleteLock(t) \/ deleteUnlink(t)
                 \/ modifyIndex(t) \/ removeItemWrite(t) \/ addItemWrite(t)

SpecMissing == InitDeletes /\ [][NextMissing]_vars

\* the steps a handler takes up to and including its stat of the entity file
BeforeStat == {"getone_wait", "getone_raw", "edit_wait", "edit_write", "delete_wait", "delete_unlink"}
AtStat == {"getone_raw", "edit_write", "delete_unlink"}

\* C17: a call of getOne, edit or delete for an id that is not stored changes
\* no stored entity and no index, and ends at its stat: getOne returns null,
\* edit and delete fail with 'Item not found'.
C17_MissingIds ==
  [][\A t \in Tasks :
       (pc[t] \in BeforeStat /\ arg[t].id \notin DOMAIN files /\ pc'[t] # pc[t])
       => /\ files' = files
          /\ index' = index
          /\ pc[t] \in AtStat
             => /\ pc'[t] = "idle"
                /\ last'[t] = [kind |-> arg[t].kind, id |-> arg[t].id, ok |-> FALSE]]_vars

\* an edit of the id that never existed and a delete of an already deleted
\* id have failed while an entity is still stored
C17_Witness ==
  \E t \in Tasks, u \in Tasks :
    /\ last[t] = [kind |-> "edit", id |-> MissingId, ok |-> FALSE]
    /\ last[u].kind = "delete" /\ ~last[u].ok /\ last[u].id \in Ids
    /\ DOMAIN files # {}
    /\ Quiescent

\* ======================================================================
\* remove(id) called on an index, for any id
\* ======================================================================
\* both kinds of index filled by MaxIds calls of insert that have returned
InitRemove ==
  \E values \in [1..MaxIds -> Docs] :
    LET stored == [id \in Ids |-> WithId(values[CHOOSE n \in 1..MaxIds : IdOf(n) = id], id)]
        built == [i \in Indexes |-> remapItems(EmptyIndex, i, getAllRaw(stored, 1), 1)]
    IN /\ files = stored
       /\ index = built
       /\ nextId = MaxIds
       /\ known = Ids
       /\ held = [t \in Tasks |-> <<>>]
       /\ pc = [t \in Tasks |-> "idle"]
       /\ arg = [t \in Tasks |-> NoArg]
       /\ pos = [t \in Tasks |-> 0]
       /\ buf = [t \in Tasks |-> <<>>]
       /\ last = [t \in Tasks |-> NoLast]
       /\ ops = 0
       /\ lForward = built[LIndexName].forward
       /\ lBackward = built[LIndexName].backward
       /\ lExists = TRUE
       /\ lData = <<>>
       /\ worker = [t \in Tasks |-> FALSE]
       /\ dbs = [p \in 0..NTasks |-> "none"]
       /\ referenceCounter = 0
       /\ dbLog = <<>>
       /\ handles = [t \in Tasks |-> 0]

\* ------------------------------ JsonDBIndex friendMethodsSymbolRemoveItem
indexRemove(t) ==
  \E id \in CallerIds, n \in 1..NIdx :
    /\ Call(t, "remove", id, <<>>, "ir_wait")
    /\ pos' = [pos EXCEPT ![t] = n]

\* modifyIndex: lockSingleAccess on the index key, readIndexData
indexRemoveLock(t) ==
  /\ pc[t] = "ir_wait"
  /\ CanLock(t, IndexKey(CurIndex(t)), TRUE)
  /\ held' = Lock(t, IndexKey(CurIndex(t)), TRUE)
  /\ buf' = [buf EXCEPT ![t] = index[CurIndex(t)]]
  /\ pc' = [pc EXCEPT ![t] = "ir_locked"]
  /\ UNCHANGED <<files, index, nextId, known, arg, pos, last, ops, lvars, cvars>>

\* the modifier and writeIndexData
indexRemoveWrite(t) ==
  /\ pc[t] = "ir_locked"
  /\ index' = [index EXCEPT ![CurIndex(t)] = removeItem(buf[t], arg[t].id)]
  /\ held' = Unlock(t)
  /\ Return(t, TRUE)
  /\ UNCHANGED <<files, nextId, known, ops, lvars, cvars>>

\* ----------------------------- LocalDBIndex friendMethodsSymbolRemoveItem
\* const k = await this.dbBackward.get(id), read before the lock is taken
lRemoveItem(t) ==
  \E id \in CallerIds :
    /\ Call(t, "lremove", id, IF id \in DOMAIN lBackward THEN lBackward[id] ELSE Undefined, "lr_wait")
    /\ UNCHANGED pos

lRemoveItemLock(t) ==
  /\ pc[t] = "lr_wait"
  /\ CanLock(t, LBucketKey(arg[t].item), TRUE)
  /\ held' = Lock(t, LBucketKey(arg[t].item), TRUE)
  /\ pc' = [pc EXCEPT ![t] = "lr_get"]
  /\ UNCHANGED <<jvars, cvars, arg, pos, buf, last, ops, lvars>>

\* ids = (await this.dbForward.get(k))?.ids || []; idx === -1 ends the call
lRemoveItemGet(t) ==
  /\ pc[t] = "lr_get"
  /\ LET ids == LGetIds(lForward, arg[t].item)
         idx == IndexOf(ids, arg[t].id)
     IN IF idx = 0
        THEN /\ held' = Unlock(t)
             /\ Return(t, TRUE)
        ELSE /\ buf' = [buf EXCEPT ![t] = Splice(ids, idx)]
             /\ pc' = [pc EXCEPT ![t] = "lr_put"]
             /\ UNCHANGED <<held, arg, pos, last>>
  /\ UNCHANGED <<jvars, cvars, ops, lvars>>

\* await this.dbForward.put(k, { ids })
lRemoveItemPutForward(t) ==
  /\ pc[t] = "lr_put"
  /\ lForward' = SetKey(lForward, arg[t].item, buf[t])
  /\ pc' = [pc EXCEPT ![t] = "lr_del"]
  /\ UNCHANGED <<jvars, cvars, held, arg, pos, buf, last, ops, lBackward, lExists>>

\* await this.dbBackward.del(id)
lRemoveItemDelBackward(t) ==
  /\ pc[t] = "lr_del"
  /\ lBackward' = DeleteKey(lBackward, arg[t].id)
  /\ held' = Unlock(t)
  /\ Return(t, TRUE)
  /\ UNCHANGED <<jvars, cvars, ops, lForward, lExists>>

NextRemove == \E t \in Tasks :
                \/ indexRemove(t) \/ indexRemoveLock(t) \/ indexRemoveWrite(t)
                \/ lRemoveItem(t) \/ lRemoveItemLock(t) \/ lRemoveItemGet(t)
                \/ lRemoveItemPutForward(t) \/ lRemoveItemDelBackward(t)

SpecRemove == InitRemove /\ [][NextRemove]_vars

\* the ids of a bucket, an absent bucket read as empty
BucketOf(fwd, k) == IF k \in DOMAIN fwd THEN fwd[k] ELSE <<>>

\* every bucket but k is what it was
OtherBucketsKept(before, after, k) ==
  \A x \in (DOMAIN before \cup DOMAIN after) \ {k} :
    x \in DOMAIN before /\ x \in DOMAIN after /\ after[x] = before[x]

InitRebuild ==
  \E values \in [1..MaxIds -> Docs], age \in [Indexes -> {"missing", "stale", "complete"}] :
    LET stored == [id \in Ids |-> WithId(values[CHOOSE n \in 1..MaxIds : IdOf(n) = id], id)]
        items == getAllRaw(stored, 1)
    IN /\ files = stored
       /\ index = [i \in Indexes |->
                     CASE age[i] = "missing" -> EmptyIndex
                       [] age[i] = "stale" -> remapItems(EmptyIndex, i, SubSeq(items, 1, Len(items) - 1), 1)
                       [] OTHER -> remapItems(EmptyIndex, i, items, 1)]
       /\ nextId = MaxIds
       /\ known = Ids
       /\ held = [t \in Tasks |-> <<>>]
       /\ pc = [t \in Tasks |-> "idle"]
       /\ arg = [t \in Tasks |-> NoArg]
       /\ pos = [t \in Tasks |-> 0]
       /\ buf = [t \in Tasks |-> <<>>]
       /\ last = [t \in Tasks |-> NoLast]
       /\ ops = 0
       /\ lForward = <<>>
       /\ lBackward = <<>>
       /\ lExists = FALSE
       /\ lData = <<>>
       /\ worker = [t \in Tasks |-> FALSE]
       /\ dbs = [p \in 0..NTasks |-> "none"]
       /\ referenceCounter = 0
       /\ dbLog = <<>>
       /\ handles = [t \in Tasks |-> 0]

NextRebuild == \E t \in Tasks :
                 \/ remapIndex(t) \/ remapIndexLock(t) \/ remapGetAll(t)
                 \/ modifyIndex(t) \/ remapWrite(t)

SpecRebuild == InitRebuild /\ [][NextRebuild]_vars

\* C21: with no mutation in between, a rebuild that runs after a rebuild
\* has completed writes the forward and backward maps that are there already.
C21_RebuildConverges ==
  [][\A t \in Tasks :
       (/\ pc[t] = "remap_locked"
        /\ pc'[t] # pc[t]
        /\ \E u \in Tasks : last[u].kind = "remapIndex")
       => index'[CurIndex(t)] = index[CurIndex(t)]]_vars

\* two rebuilds have completed one after the other and every entity is
\* indexed in every index
C21_Witness ==
  /\ Quiescent
  /\ ops >= 2
  /\ \A t \in Tasks : last[t].kind = "remapIndex"
  /\ \A i \in Indexes : DOMAIN index[i].backward = Ids

\* ======================================================================
\* JsonDBIndex: the encoded keys of typed values, get and query
\* ======================================================================
\* encoded keys are strings compared by JavaScript: sequences of char codes
Semicolon == 59

\* the char codes of the strings stored as field values
CharsOf(text) ==
  CASE text = "" -> <<>>
    [] text = "a" -> <<97>>
    [] text = "b" -> <<98>>
    [] text = "1" -> <<49>>
    [] text = "a;b" -> <<97, 59, 98>>
    [] text = "eb04" -> <<101, 98, 48, 52>>
    [] text = "1970-01-01T00:00:00.000Z" ->
         <<49, 57, 55, 48, 45, 48, 49, 45, 48, 49, 84, 48, 48, 58, 48, 48, 58, 48, 48, 46, 48, 48, 48, 90>>

\* hashString(input): sha256 in hex, cut to its first four digits
hashString(input) ==
  CASE input = "undefined" -> <<101, 98, 48, 52>>
    [] input = "null" -> <<55, 52, 50, 51>>

\* Number.prototype.toExponential of the numbers used as field values and
\* bounds: the sign, the exponent and the digits of the mantissa
toExponential(n) ==
  CASE n = "-10" -> [neg |-> TRUE, exponent |-> 1, digits |-> <<1>>]
    [] n = "-5" -> [neg |-> TRUE, exponent |-> 0, digits |-> <<5>>]
    [] n = "-0.5" -> [neg |-> TRUE, exponent |-> -1, digits |-> <<5>>]
    [] n = "0.5" -> [neg |-> FALSE, exponent |-> -1, digits |-> <<5>>]
    [] n = "1" -> [neg |-> FALSE, exponent |-> 0, digits |-> <<1>>]
    [] n = "2" -> [neg |-> FALSE, exponent |-> 0, digits |-> <<2>>]
    [] n = "3.2" -> [neg |-> FALSE, exponent |-> 0, digits |-> <<3, 2>>]
    [] n = "10" -> [neg |-> FALSE, exponent |-> 1, digits |-> <<1>>]

\* String(n) of a natural number, as char codes
RECURSIVE DigitsOf(_)
DigitsOf(n) == IF n < 10 THEN <<48 + n>> ELSE DigitsOf(n \div 10) \o <<48 + (n % 10)>>

\* flip of charwise: every digit d of the encoded string becomes 9 - d
flip(s) == [k \in DOMAIN s |-> IF s[k] \in 48..57 THEN 48 + (9 - (s[k] - 48)) ELSE s[k]]

\* (the number as its decimal digits)
charwiseEncodeDecimal(n) ==
  CASE n = "0" -> <<48>>
    [] n = "1" -> <<49>>
    [] n = "2" -> <<50>>
    [] n = "10" -> <<49, 48>>

\* charwise.encode(number): "FE  0M0" for 0; else "E", the exponent plus
\* 500, "M", the mantissa with its decimal point and twenty zeros, after "F"
\* for a positive number and flipped after "D" for a negative one
charwiseEncode(n) ==
  IF n = "0"
  THEN <<70, 69, 32, 32, 48, 77, 48>>
  ELSE LET e == toExponential(n)
           encoded == <<69>> \o DigitsOf(e.exponent + 500) \o <<77, 48 + e.digits[1], 46>>
                      \o [k \in 1..(Len(e.digits) - 1) |-> 48 + e.digits[k + 1]]
                      \o [k \in 1..20 |-> 48]
       IN IF e.neg THEN <<68>> \o flip(encoded) ELSE <<70>> \o encoded

\* the number a numeric field value stands for
NumberOf(n) == CASE n = "0" -> 0 [] n = "1" -> 1 [] n = "2" -> 2 [] n = "10" -> 10

\* an array value of the given elements
ArrOf(s) == Arr([k \in {ToString(n - 1) : n \in 1..Len(s)} |-> s[CHOOSE n \in 1..Len(s) : ToString(n - 1) = k]])

\* the elements of an array value, in order
ElementsOf(v) == [n \in 1..Cardinality(DOMAIN v.members) |-> v.members[ToString(n - 1)]]

\* Array.prototype.join(';')
RECURSIVE JoinKeys(_)
JoinKeys(ks) ==
  IF Len(ks) = 0 THEN <<>>
  ELSE IF Len(ks) = 1 THEN ks[1]
  ELSE ks[1] \o <<Semicolon>> \o JoinKeys(Tail(ks))

\* serializeKeyByValue throws 'Unknown index key type': the value, or an
\* element of the array, is a function or a bigint
RECURSIVE Unserializable(_)
Unserializable(v) ==
  IF v.kind = "array"
  THEN \E k \in DOMAIN v.members : Unserializable(v.members[k])
  ELSE v.kind \in {"function", "bigint"}

\* (a number or a Date is keyed by its decimal text)
serializeKeyDecimal(v) ==
  CASE v.kind \in {"number", "date"} ->
         IF v.text = "0" THEN <<48>>
         ELSE LET e == toExponential(v.text)
                  zeros == [k \in 1..(IF e.exponent > 0 THEN e.exponent ELSE 0) |-> 48]
                  digits == [k \in 1..Len(e.digits) |-> 48 + e.digits[k]]
              IN (IF e.neg THEN <<45>> ELSE <<>>)
                 \o (IF e.exponent < 0 THEN <<48, 46>> \o digits
                     ELSE IF Len(e.digits) > 1 THEN <<digits[1], 46>> \o Tail(digits)
                     ELSE digits \o zeros)
    [] v.kind = "string" -> CharsOf(v.text)
    [] v.kind = "boolean" -> IF v.text = "true" THEN <<49>> ELSE <<48>>

\* serializeKeyByValue of JsonDBIndex.ts on a typed value
RECURSIVE serializeKey(_)
serializeKey(v) ==
  CASE v.kind = "array" -> JoinKeys([n \in 1..Cardinality(DOMAIN v.members) |-> serializeKey(ElementsOf(v)[n])])
    [] v.kind = "undefined" -> hashString("undefined")
    [] v.kind = "date" -> charwiseEncode(v.text)
    [] v.kind = "string" -> CharsOf(v.text)
    [] v.kind = "number" -> charwiseEncode(v.text)
    [] v.kind = "boolean" -> IF v.text = "true" THEN <<49>> ELSE <<48>>
    [] v.kind = "null" -> hashString("null")

\* a < b for JavaScript strings
StrLess(a, b) ==
  \E n \in 1..(Min(Len(a), Len(b)) + 1) :
    /\ \A m \in 1..(n - 1) : a[m] = b[m]
    /\ IF n > Len(a) THEN n <= Len(b)
       ELSE IF n > Len(b) THEN FALSE
       ELSE a[n] < b[n]

\* k.split(';')
RECURSIVE SplitFrom(_, _, _)
SplitFrom(k, n, cur) ==
  IF n > Len(k) THEN <<cur>>
  ELSE IF k[n] = Semicolon THEN <<cur>> \o SplitFrom(k, n + 1, <<>>)
  ELSE SplitFrom(k, n + 1, Append(cur, k[n]))

Split(k) == SplitFrom(k, 1, <<>>)

\* getByExpression(item, path) for a path of property names: undefined when
\* a segment is missing
RECURSIVE getByPath(_, _)
getByPath(v, path) ==
  IF Len(path) = 0 THEN v
  ELSE IF v.kind # "object" \/ path[1] \notin DOMAIN v.members THEN UndefinedValue
  ELSE getByPath(v.members[path[1]], Tail(path))

\* the indexed path 'deep.value'
QPath == <<"deep", "value">>

\* the operators of a query that take a value, a list of values, a boolean
ValueOperators == {"gt", "gte", "lt", "lte", "eq", "ne", "includes", "excludes"}
ListOperators == {"in", "nin"}
FlagOperators == {"empty", "notEmpty"}

\* usedItteratorOptions: the options with their values encoded
usedItteratorOptions(options) ==
  [o \in DOMAIN options |->
     IF o \in ValueOperators THEN serializeKey(options[o])
     ELSE IF o \in ListOperators THEN [n \in 1..Len(options[o]) |-> serializeKey(options[o][n])]
     ELSE options[o]]

\* a string used as a condition: the empty string is falsy
Truthy(s) == s # <<>>

\* (the array operators are looked at only when eq is not given)
PassesArrayUnlessEq(k, used) ==
  LET has(o) == o \in DOMAIN used
      ks == Split(k)
      isEmpty == Len(ks) = 1 /\ ks[1] = <<>>
  IN /\ ~(has("gt") /\ Truthy(used["gt"]) /\ (StrLess(k, used["gt"]) \/ k = used["gt"]))
     /\ ~(has("gte") /\ Truthy(used["gte"]) /\ StrLess(k, used["gte"]))
     /\ ~(has("lt") /\ Truthy(used["lt"]) /\ (StrLess(used["lt"], k) \/ k = used["lt"]))
     /\ ~(has("lte") /\ Truthy(used["lte"]) /\ StrLess(used["lte"], k))
     /\ ~(has("eq") /\ Truthy(used["eq"]) /\ k # used["eq"])
     /\ ~(has("ne") /\ Truthy(used["ne"]) /\ k = used["ne"])
     /\ ~(has("in") /\ ~Includes(used["in"], k))
     /\ ~(has("nin") /\ Includes(used["nin"], k))
     /\ has("eq")
        \/ /\ ~(has("includes") /\ ~Includes(ks, used["includes"]))
           /\ ~(has("excludes") /\ Includes(ks, used["excludes"]))
           /\ ~(has("empty") /\ ((used["empty"] /\ ~isEmpty) \/ (~used["empty"] /\ isEmpty)))
           /\ ~(has("notEmpty") /\ ((used["notEmpty"] /\ isEmpty) \/ (~used["notEmpty"] /\ ~isEmpty)))

\* the body of the loop over Object.keys(data.forward): no `continue` is taken
Passes(k, used) ==
  LET has(o) == o \in DOMAIN used
      ks == Split(k)
      isEmpty == Len(ks) = 1 /\ ks[1] = <<>>
  IN /\ ~(has("gt") /\ Truthy(used["gt"]) /\ (StrLess(k, used["gt"]) \/ k = used["gt"]))
     /\ ~(has("gte") /\ Truthy(used["gte"]) /\ StrLess(k, used["gte"]))
     /\ ~(has("lt") /\ Truthy(used["lt"]) /\ (StrLess(used["lt"], k) \/ k = used["lt"]))
     /\ ~(has("lte") /\ Truthy(used["lte"]) /\ StrLess(used["lte"], k))
     /\ ~(has("eq") /\ Truthy(used["eq"]) /\ k # used["eq"])
     /\ ~(has("ne") /\ Truthy(used["ne"]) /\ k = used["ne"])
     /\ ~(has("in") /\ ~Includes(used["in"], k))
     /\ ~(has("nin") /\ Includes(used["nin"], k))
     /\ ~(has("includes") /\ ~Includes(ks, used["includes"]))
     /\ ~(has("excludes") /\ Includes(ks, used["excludes"]))
     /\ ~(has("empty") /\ ((used["empty"] /\ ~isEmpty) \/ (~used["empty"] /\ isEmpty)))
     /\ ~(has("notEmpty") /\ ((used["notEmpty"] /\ isEmpty) \/ (~used["notEmpty"] /\ ~isEmpty)))

\* query(options): the ids of the buckets that pass, resolved by
\* dataGetters.get to the entities that are stored
queryIds(data, fs, options) ==
  {id \in DOMAIN fs :
     \E k \in DOMAIN data.forward : Passes(k, usedItteratorOptions(options)) /\ Includes(data.forward[k], id)}

\* get(value): the ids of the bucket of the encoded value, resolved likewise
getIds(data, fs, value) ==
  {id \in DOMAIN fs :
     serializeKey(value) \in DOMAIN data.forward /\ Includes(data.forward[serializeKey(value)], id)}

\* the name of the index on QPath
QIndexName == "deep.value"

\* the values callers store at the indexed path and pass to get and query
Numbers == {Num("1"), Num("2"), Num("10")}
Strings == {Str(""), Str("a"), Str("a;b"), Str("eb04")}
Arrays == {ArrOf(<<>>), ArrOf(<<Str("")>>), ArrOf(<<Str("a"), Str("b")>>), ArrOf(<<Str("a;b")>>)}
QValues == Numbers \cup Strings \cup Arrays
           \cup {Bool("true"), DateOf("0"), Null, UndefinedValue}

\* { deep: { value: v } }
Wrap(v) == SetKey(<<>>, "deep", Obj(SetKey(<<>>, "value", v)))

\* the entities handed to insert: the path holds a value, or its last or
\* its first segment is missing
QEntities == {Wrap(v) : v \in QValues \ {UndefinedValue}}
             \cup {SetKey(<<>>, "deep", Obj(<<>>)), <<>>}

\* friendMethodsSymbolAddItem on the item insert holds in memory
qAddItem(data, item) ==
  LET k == serializeKey(getByPath(Obj(item), QPath))
      id == item["$id"].text
      ids == IF k \in DOMAIN data.forward THEN data.forward[k] ELSE <<>>
  IN IF ~Includes(ids, id)
     THEN [forward |-> SetKey(data.forward, k, Append(ids, id)),
           backward |-> SetKey(data.backward, id, k)]
     ELSE data

\* the index after insert was called for entities[from..], one after the other
RECURSIVE qInserted(_, _, _)
qInserted(data, entities, from) ==
  IF from > Len(entities)
  THEN data
  ELSE qInserted(qAddItem(data, ItemOf(entities[from], IdOf(from))), entities, from + 1)

\* a repository with one index after MaxIds calls of insert have returned
InitQuery ==
  \E entities \in [1..MaxIds -> QEntities] :
    /\ files = [id \in Ids |-> JSONstringify(Obj(ItemOf(entities[CHOOSE n \in 1..MaxIds : IdOf(n) = id], id)))]
    /\ index = [i \in {QIndexName} |-> qInserted(EmptyIndex, entities, 1)]
    /\ nextId = MaxIds
    /\ known = Ids
    /\ held = [t \in Tasks |-> <<>>]
    /\ pc = [t \in Tasks |-> "idle"]
    /\ arg = [t \in Tasks |-> NoArg]
    /\ pos = [t \in Tasks |-> 0]
    /\ buf = [t \in Tasks |-> <<>>]
    /\ last = [t \in Tasks |-> NoLast]
    /\ ops = 0
    /\ lForward = <<>>
    /\ lBackward = <<>>
    /\ lExists = FALSE
    /\ lData = <<>>
    /\ worker = [t \in Tasks |-> FALSE]
    /\ dbs = [p \in 0..NTasks |-> "none"]
    /\ referenceCounter = 0
    /\ dbLog = <<>>
    /\ handles = [t \in Tasks |-> 0]

\* the options callers pass to query
QOptions == {SetKey(<<>>, "gte", Num("2")), SetKey(<<>>, "eq", Str("a")),
             SetKey(<<>>, "includes", Str("a")), SetKey(<<>>, "empty", TRUE), <<>>}

\* the values callers pass to get
QGetValues == {Str("a"), Num("2"), Null, UndefinedValue}

\* ------------------------------------------------------ JsonDBIndex.query
query(t) ==
  /\ Call(t, "query", NoId, <<>>, "query_wait")
  /\ UNCHANGED pos

\* readIndex: lockMultiAccess on the index key, readIndexData, the scan of
\* the buckets with the options of the caller and dataGetters.get
queryRead(t) ==
  /\ pc[t] = "query_wait"
  /\ CanLock(t, IndexKey(QIndexName), FALSE)
  /\ \E options \in QOptions :
       /\ pc' = [pc EXCEPT ![t] = "idle"]
       /\ last' = [last EXCEPT ![t] = [kind |-> "query", id |-> NoId, ok |-> TRUE]]
       /\ arg' = [arg EXCEPT ![t] = NoArg]
       /\ buf' = [buf EXCEPT ![t] = <<>>]
       /\ queryIds(index[QIndexName], files, options) \subseteq DOMAIN files
  /\ UNCHANGED <<files, index, nextId, known, held, pos, ops, lvars, cvars>>

\* ------------------------------------------------------- JsonDBIndex.get
get(t) ==
  /\ Call(t, "get", NoId, <<>>, "get_wait")
  /\ UNCHANGED pos

\* readIndex, then dataGetters.get under the shared repository lock
getRead(t) ==
  /\ pc[t] = "get_wait"
  /\ CanLock(t, IndexKey(QIndexName), FALSE)
  /\ \E value \in QGetValues :
       /\ pc' = [pc EXCEPT ![t] = "idle"]
       /\ last' = [last EXCEPT ![t] = [kind |-> "get", id |-> NoId, ok |-> TRUE]]
       /\ arg' = [arg EXCEPT ![t] = NoArg]
       /\ buf' = [buf EXCEPT ![t] = <<>>]
       /\ getIds(index[QIndexName], files, value) \subseteq DOMAIN files
  /\ UNCHANGED <<files, index, nextId, known, held, pos, ops, lvars, cvars>>

NextQuery == \E t \in Tasks : query(t) \/ queryRead(t) \/ get(t) \/ getRead(t)

SpecQuery == InitQuery /\ [][NextQuery]_vars

\* the value at the indexed path of a stored entity
StoredValue(id) == getByPath(JSONparse(files[id]), QPath)

\* the ids the index lists
Indexed == DOMAIN index[QIndexName].backward \cap DOMAIN files

\* query and get on the stored index
Q(options) == queryIds(index[QIndexName], files, options)
G(value) == getIds(index[QIndexName], files, value)

\* a caller has queried the index
Queried == \E t \in Tasks : last[t].kind = "query"

\* C22: over a numeric field, query({gte: a, lte: b}) is the union of
\* query({eq: v}) over the indexed values v with a <= v <= b, and
\* query({gt: a, lt: b}) the union over those with a < v < b.
C22_RangeIsUnionOfEq ==
  (\A id \in DOMAIN files : StoredValue(id).kind = "number")
  => \A a \in Numbers, b \in Numbers :
       NumberOf(a.text) <= NumberOf(b.text)
       => LET present == {StoredValue(id) : id \in Indexed}
              within == {v \in present : NumberOf(a.text) <= NumberOf(v.text) /\ NumberOf(v.text) <= NumberOf(b.text)}
              inside == {v \in present : NumberOf(a.text) < NumberOf(v.text) /\ NumberOf(v.text) < NumberOf(b.text)}
          IN /\ Q(SetKey(SetKey(<<>>, "gte", a), "lte", b)) = UNION {Q(SetKey(<<>>, "eq", v)) : v \in within}
             /\ Q(SetKey(SetKey(<<>>, "gt", a), "lt", b)) = UNION {Q(SetKey(<<>>, "eq", v)) : v \in inside}

\* the values 2 and 10 are indexed, the range from 2 to 10 holds both and
\* a caller has queried
C22_Witness ==
  /\ Queried
  /\ \A id \in DOMAIN files : StoredValue(id).kind = "number"
  /\ {Num("2"), Num("10")} \subseteq {StoredValue(id) : id \in Indexed}
  /\ Cardinality(Q(SetKey(SetKey(<<>>, "gte", Num("2")), "lte", Num("10")))) >= 2

\* the values of the types eq, ne, in and nin are documented for
EqValues == Strings \cup Numbers \cup {Bool("true"), DateOf("0"), Null, UndefinedValue}

\* C23: query({eq: v}) returns exactly the entities get(v) returns and
\* query({ne: v}) exactly the other indexed entities, for every string (the
\* empty one too), number, boolean, Date, null and undefined; in and nin
\* select the buckets of the listed values and the other buckets.
C23_EqNeExact ==
  Queried =>
  /\ \A v \in EqValues :
       /\ Q(SetKey(<<>>, "eq", v)) = G(v)
       /\ Q(SetKey(<<>>, "ne", v)) = Indexed \ G(v)
  /\ \A v \in EqValues, w \in EqValues :
       /\ Q(SetKey(<<>>, "in", <<v, w>>)) = G(v) \cup G(w)
       /\ Q(SetKey(<<>>, "nin", <<v, w>>)) = Indexed \ (G(v) \cup G(w))

\* the elements callers ask for
Elements == {Str(""), Str("a"), Str("b"), Str("a;b")}

\* the indexed value of id is an array that has the element x
HasElement(id, x) ==
  /\ StoredValue(id).kind = "array"
  /\ \E k \in DOMAIN StoredValue(id).members : StoredValue(id).members[k] = x

\* C24: over an array-valued field, query({includes: x}) returns exactly
\* the entities whose array has an element equal to x and
\* query({excludes: x}) exactly the other indexed entities.
C24_ArrayContainment ==
  (Queried /\ \A id \in DOMAIN files : StoredValue(id).kind = "array")
  => \A x \in Elements :
       /\ Q(SetKey(<<>>, "includes", x)) = {id \in Indexed : HasElement(id, x)}
       /\ Q(SetKey(<<>>, "excludes", x)) = {id \in Indexed : ~HasElement(id, x)}

\* the indexed value of id is an array without elements
IsEmptyArray(id) == StoredValue(id).kind = "array" /\ DOMAIN StoredValue(id).members = {}

\* C25: query({empty: true}) returns exactly the entities whose indexed
\* value is an empty array, query({notEmpty: true}) exactly the other indexed
\* entities; {empty: false} is {notEmpty: true}, {notEmpty: false} is
\* {empty: true}.
C25_Emptiness ==
  Queried =>
  /\ Q(SetKey(<<>>, "empty", TRUE)) = {id \in Indexed : IsEmptyArray(id)}
  /\ Q(SetKey(<<>>, "notEmpty", TRUE)) = {id \in Indexed : ~IsEmptyArray(id)}
  /\ Q(SetKey(<<>>, "empty", FALSE)) = Q(SetKey(<<>>, "notEmpty", TRUE))
  /\ Q(SetKey(<<>>, "notEmpty", FALSE)) = Q(SetKey(<<>>, "empty", TRUE))

\* C27: an entity whose indexed path is missing is returned by
\* get(undefined) and by no other get(v), an entity whose field is null by
\* get(null) and by no other get(v); get(undefined) and get(null) share no
\* entity.
C27_Sentinels ==
  Queried =>
  /\ \A id \in Indexed :
       /\ StoredValue(id).kind = "undefined"
          => (id \in G(UndefinedValue) /\ \A v \in QValues \ {UndefinedValue} : id \notin G(v))
       /\ StoredValue(id).kind = "null"
          => (id \in G(Null) /\ \A v \in QValues \ {Null} : id \notin G(v))
  /\ G(UndefinedValue) \cap G(Null) = {}

\* options that use one operator each
SingleOptions ==
  <<SetKey(<<>>, "gt", Str("a")), SetKey(<<>>, "gte", Num("2")), SetKey(<<>>, "lt", Str("eb04")),
   SetKey(<<>>, "lte", Num("10")), SetKey(<<>>, "eq", Str("a")), SetKey(<<>>, "eq", Str("a;b")),
   SetKey(<<>>, "eq", Str("")), SetKey(<<>>, "ne", Null),
   SetKey(<<>>, "in", <<Str("a"), Str("a;b"), Num("2")>>), SetKey(<<>>, "nin", <<Null>>),
   SetKey(<<>>, "includes", Str("a")), SetKey(<<>>, "excludes", Str("b")),
   SetKey(<<>>, "empty", FALSE), SetKey(<<>>, "notEmpty", TRUE)>>

\* the options of a and of b given together
Together(a, b) == [o \in DOMAIN a \cup DOMAIN b |-> IF o \in DOMAIN a THEN a[o] ELSE b[o]]

\* one option of every operator, all given together
AllTogether ==
  [o \in ValueOperators \cup ListOperators \cup FlagOperators |->
     SingleOptions[CHOOSE n \in 1..Len(SingleOptions) : DOMAIN SingleOptions[n] = {o}][o]]

\* every caller has completed a query and none is in a call
AllQueried == Quiescent /\ \A t \in Tasks : last[t].kind = "query"

\* C26: the result of a query with several operators is the intersection of
\* the results of the queries with each operator alone, and query({})
\* returns every indexed entity.
C26_Conjunction ==
  AllQueried =>
  /\ Q(<<>>) = Indexed
  /\ \A n \in 1..Len(SingleOptions), m \in 1..Len(SingleOptions) :
       (n < m /\ DOMAIN SingleOptions[n] # DOMAIN SingleOptions[m])
       => Q(Together(SingleOptions[n], SingleOptions[m])) = Q(SingleOptions[n]) \cap Q(SingleOptions[m])
  /\ \A id \in Indexed :
       id \in Q(AllTogether) <=> \A o \in DOMAIN AllTogether : id \in Q(SetKey(<<>>, o, AllTogether[o]))

\* eq 'a;b' alone and excludes 'b' alone each return an entity, both given
\* together return none
C26_Witness ==
  /\ AllQueried
  /\ Q(Together(SetKey(<<>>, "eq", Str("a;b")), SetKey(<<>>, "excludes", Str("b")))) = {}
  /\ Q(SetKey(<<>>, "eq", Str("a;b"))) # {}
  /\ Q(SetKey(<<>>, "excludes", Str("b"))) # {}

\* ======================================================================
\* JsonDBRepository with indexes on typed values: what a call leaves behind
\* when an index key cannot be encoded or the storage fails
\* ======================================================================
\* values of the kinds serializeKeyByValue has no branch for
FunctionValue == [kind |-> "function", text |-> "", members |-> <<>>]
BigIntValue == [kind |-> "bigint", text |-> "1", members |-> <<>>]

\* JSON.stringify(value) throws a TypeError: a bigint is in the value
RECURSIVE JSONstringifyThrows(_)
JSONstringifyThrows(v) ==
  IF v.kind \in {"object", "array"}
  THEN \E k \in DOMAIN v.members : JSONstringifyThrows(v.members[k])
  ELSE v.kind = "bigint"

\* the entities handed to insert and the partial data handed to edit: the
\* fields of the two indexes
FaultEntities == {[name |-> n, status |-> s] : n \in {Str("a"), FunctionValue},
                                               s \in {Str("b"), FunctionValue, BigIntValue}}
FaultPatches == {SetKey(<<>>, "status", s) : s \in {Str("a"), FunctionValue, BigIntValue}}
                \cup {SetKey(<<>>, "name", Str("b"))}

\* the errors: of the file system, of JSON.stringify, of serializeKeyByValue
\* and those the handlers throw themselves
StorageError == "EIO"
NoError == ""

\* friendMethodsSymbolAddItem: the modifier, for the index on a top-level path
addItemAt(data, i, item) ==
  LET k == serializeKey(getByPath(Obj(item), <<i>>))
      id == item["$id"].text
      ids == IF k \in DOMAIN data.forward THEN data.forward[k] ELSE <<>>
  IN IF ~Includes(ids, id)
     THEN [forward |-> SetKey(data.forward, k, Append(ids, id)),
           backward |-> SetKey(data.backward, id, k)]
     ELSE data

\* the handler throws: its scopes are left and the caller receives error;
\* cause is the error the storage raised during the call, if it raised one
Throw(t, error, cause) ==
  /\ held' = [held EXCEPT ![t] = <<>>]
  /\ pc' = [pc EXCEPT ![t] = "idle"]
  /\ last' = [last EXCEPT ![t] = [kind |-> arg[t].kind, id |-> arg[t].id, ok |-> FALSE,
                                  error |-> error, cause |-> cause]]
  /\ arg' = [arg EXCEPT ![t] = NoArg]
  /\ pos' = [pos EXCEPT ![t] = 0]
  /\ buf' = [buf EXCEPT ![t] = <<>>]

\* the handler returns
Resolve(t) ==
  /\ held' = [held EXCEPT ![t] = <<>>]
  /\ pc' = [pc EXCEPT ![t] = "idle"]
  /\ last' = [last EXCEPT ![t] = [kind |-> arg[t].kind, id |-> arg[t].id, ok |-> TRUE,
                                  error |-> NoError, cause |-> NoError]]
  /\ arg' = [arg EXCEPT ![t] = NoArg]
  /\ pos' = [pos EXCEPT ![t] = 0]
  /\ buf' = [buf EXCEPT ![t] = <<>>]

\* what the two catch blocks of edit make of an error thrown after the
\* entity was parsed; insert and delete have no catch
Caught(kind, error) == IF kind = "edit" THEN "Error parsing entity" ELSE error

\* a repository with two indexes, opened on an empty directory
InitFaults ==
  /\ files = <<>>
  /\ index = [i \in Indexes |-> EmptyIndex]
  /\ nextId = 0
  /\ known = {}
  /\ held = [t \in Tasks |-> <<>>]
  /\ pc = [t \in Tasks |-> "idle"]
  /\ arg = [t \in Tasks |-> NoArg]
  /\ pos = [t \in Tasks |-> 0]
  /\ buf = [t \in Tasks |-> <<>>]
  /\ last = [t \in Tasks |-> [kind |-> "none", id |-> NoId, ok |-> TRUE, error |-> NoError, cause |-> NoError]]
  /\ ops = 0
  /\ lForward = <<>>
  /\ lBackward = <<>>
  /\ lExists = FALSE
  /\ lData = <<>>
  /\ worker = [t \in Tasks |-> FALSE]
  /\ dbs = [p \in 0..NTasks |-> "none"]
  /\ referenceCounter = 0
  /\ dbLog = <<>>
  /\ handles = [t \in Tasks |-> 0]

\* ------------------------------------------------- JsonDBRepository.insert
insertEntity(t) ==
  /\ nextId + Cardinality({u \in Tasks : pc[u] \in {"f_insert_wait", "f_insert_write"}}) < MaxIds
  /\ \E value \in FaultEntities : /\ Call(t, "insert", NoId, value, "f_insert_wait") /\ UNCHANGED pos

insertEntityLock(t) ==
  /\ pc[t] = "f_insert_wait"
  /\ CanLock(t, InsertKey, TRUE)
  /\ held' = Lock(t, InsertKey, TRUE)
  /\ pc' = [pc EXCEPT ![t] = "f_insert_write"]
  /\ UNCHANGED <<files, index, nextId, known, arg, pos, buf, last, ops, lvars, cvars>>

\* createRandomId, item = { ...value, $id: id }, JSON.stringify(item) and the
\* writeFile of the entity, which the file system may fail
insertEntityWrite(t) ==
  /\ pc[t] = "f_insert_write"
  /\ nextId' = nextId + 1
  /\ LET id == IdOf(nextId + 1)
         item == ItemOf(arg[t].item, id)
     IN IF JSONstringifyThrows(Obj(item))
        THEN /\ Throw(t, "TypeError", NoError)
             /\ UNCHANGED files
        ELSE \E failed \in BOOLEAN :
               IF failed
               THEN /\ Throw(t, StorageError, StorageError)
                    /\ UNCHANGED files
               ELSE /\ files' = SetKey(files, id, JSONstringify(Obj(item)))
                    /\ arg' = [arg EXCEPT ![t] = [kind |-> "insert", id |-> id, item |-> item]]
                    /\ pos' = [pos EXCEPT ![t] = 1]
                    /\ pc' = [pc EXCEPT ![t] = "f_add"]
                    /\ UNCHANGED <<held, buf, last>>
  /\ UNCHANGED <<index, known, ops, lvars, cvars>>

\* friendMethodsSymbolAddItem of the current index: serializeKeyByValue, then
\* modifyIndex (index lock, readIndexData, modifier, writeIndexData), which
\* the file system may fail at the read or at the write; then the next index
\* of the loop of insert / edit, or the end of the handler
addItemEntity(t) ==
  /\ pc[t] = "f_add"
  /\ IF Unserializable(getByPath(Obj(arg[t].item), <<CurIndex(t)>>))
     THEN /\ Throw(t, Caught(arg[t].kind, "Unknown index key type"), NoError)
          /\ UNCHANGED <<index, known>>
     ELSE /\ CanLock(t, IndexKey(CurIndex(t)), TRUE)
          /\ \E failed \in {"none", "read", "write"} :
               CASE failed = "read" ->
                      /\ Throw(t, Caught(arg[t].kind, "Error reading index"), StorageError)
                      /\ UNCHANGED <<index, known>>
                 [] failed = "write" ->
                      /\ Throw(t, Caught(arg[t].kind, StorageError), StorageError)
                      /\ UNCHANGED <<index, known>>
                 [] failed = "none" ->
                      /\ index' = [index EXCEPT ![CurIndex(t)] = addItemAt(@, CurIndex(t), arg[t].item)]
                      /\ IF pos[t] < NIdx
                         THEN /\ pos' = [pos EXCEPT ![t] = @ + 1]
                              /\ pc' = [pc EXCEPT ![t] = IF arg[t].kind = "edit" THEN "f_rm" ELSE "f_add"]
                              /\ UNCHANGED <<known, held, arg, buf, last>>
                         ELSE /\ known' = IF arg[t].kind = "insert" THEN known \cup {arg[t].id} ELSE known
                              /\ Resolve(t)
  /\ UNCHANGED <<files, nextId, ops, lvars, cvars>>

\* --------------------------------------------------- JsonDBRepository.edit
editEntity(t) ==
  \E id \in known, value \in FaultPatches : /\ Call(t, "edit", id, value, "f_edit_wait") /\ UNCHANGED pos

editEntityLock(t) ==
  /\ pc[t] = "f_edit_wait"
  /\ CanLock(t, IdKey(arg[t].id), TRUE)
  /\ held' = Lock(t, IdKey(arg[t].id), TRUE)
  /\ pc' = [pc EXCEPT ![t] = "f_edit_write"]
  /\ UNCHANGED <<files, index, nextId, known, arg, pos, buf, last, ops, lvars, cvars>>

\* stat, readFile (outside the try blocks), JSON.parse, the merge,
\* JSON.stringify and writeFile (inside both)
editEntityWrite(t) ==
  /\ pc[t] = "f_edit_write"
  /\ IF arg[t].id \notin DOMAIN files
     THEN /\ Throw(t, "Item not found", NoError)
          /\ UNCHANGED files
     ELSE \E failed \in {"none", "read", "write"} :
            LET item == MergeOf(JSONparse(files[arg[t].id]).members, arg[t].item, arg[t].id)
            IN CASE failed = "read" ->
                      /\ Throw(t, StorageError, StorageError)
                      /\ UNCHANGED files
                 [] failed = "write" ->
                      /\ Throw(t, "Error parsing entity", IF JSONstringifyThrows(Obj(item)) THEN NoError ELSE StorageError)
                      /\ UNCHANGED files
                 [] failed = "none" ->
                      IF JSONstringifyThrows(Obj(item))
                      THEN /\ Throw(t, "Error parsing entity", NoError)
                           /\ UNCHANGED files
                      ELSE /\ files' = SetKey(files, arg[t].id, JSONstringify(Obj(item)))
                           /\ arg' = [arg EXCEPT ![t].item = item]
                           /\ pos' = [pos EXCEPT ![t] = 1]
                           /\ pc' = [pc EXCEPT ![t] = "f_rm"]
                           /\ UNCHANGED <<held, buf, last>>
  /\ UNCHANGED <<index, nextId, known, ops, lvars, cvars>>

\* friendMethodsSymbolRemoveItem of the current index: modifyIndex, which the
\* file system may fail at the read or at the write; then the add of the
\* same index (edit), the next index (delete) or the end of delete
removeItemEntity(t) ==
  /\ pc[t] = "f_rm"
  /\ CanLock(t, IndexKey(CurIndex(t)), TRUE)
  /\ \E failed \in {"none", "read", "write"} :
       CASE failed = "read" ->
              /\ Throw(t, Caught(arg[t].kind, "Error reading index"), StorageError)
              /\ UNCHANGED index
         [] failed = "write" ->
              /\ Throw(t, Caught(arg[t].kind, StorageError), StorageError)
              /\ UNCHANGED index
         [] failed = "none" ->
              /\ index' = [index EXCEPT ![CurIndex(t)] = removeItem(@, arg[t].id)]
              /\ IF arg[t].kind = "edit"
                 THEN /\ pc' = [pc EXCEPT ![t] = "f_add"]
                      /\ UNCHANGED <<held, arg, pos, buf, last>>
                 ELSE IF pos[t] < NIdx
                      THEN /\ pos' = [pos EXCEPT ![t] = @ + 1]
                           /\ UNCHANGED <<held, pc, arg, buf, last>>
                      ELSE Resolve(t)
  /\ UNCHANGED <<files, nextId, known, ops, lvars, cvars>>

\* ------------------------------------------------- JsonDBRepository.delete
deleteEntity(t) ==
  \E id \in known : /\ Call(t, "delete", id, <<>>, "f_delete_wait") /\ UNCHANGED pos

deleteEntityLock(t) ==
  /\ pc[t] = "f_delete_wait"
  /\ CanLock(t, IdKey(arg[t].id), TRUE)
  /\ held' = Lock(t, IdKey(arg[t].id), TRUE)
  /\ pc' = [pc EXCEPT ![t] = "f_delete_unlink"]
  /\ UNCHANGED <<files, index, nextId, known, arg, pos, buf, last, ops, lvars, cvars>>

\* stat and unlink of the entity, which the file system may fail
deleteEntityUnlink(t) ==
  /\ pc[t] = "f_delete_unlink"
  /\ IF arg[t].id \notin DOMAIN files
     THEN /\ Throw(t, "Item not found", NoError)
          /\ UNCHANGED files
     ELSE \E failed \in BOOLEAN :
            IF failed
            THEN /\ Throw(t, StorageError, StorageError)
                 /\ UNCHANGED files
            ELSE /\ files' = DeleteKey(files, arg[t].id)
                 /\ pos' = [pos EXCEPT ![t] = 1]
                 /\ pc' = [pc EXCEPT ![t] = "f_rm"]
                 /\ UNCHANGED <<held, arg, buf, last>>
  /\ UNCHANGED <<index, nextId, known, ops, lvars, cvars>>

NextFaults == \E t \in Tasks :
                \/ insertEntity(t) \/ insertEntityLock(t) \/ insertEntityWrite(t) \/ addItemEntity(t)
                \/ editEntity(t) \/ editEntityLock(t) \/ editEntityWrite(t) \/ removeItemEntity(t)
                \/ deleteEntity(t) \/ deleteEntityLock(t) \/ deleteEntityUnlink(t)

SpecFaults == InitFaults /\ [][NextFaults]_vars

\* the caller t is in an insert or edit whose item holds, at the path of an
\* index, a value serializeKeyByValue throws for
EncodingFails(t) ==
  /\ arg[t].kind \in {"insert", "edit"}
  /\ \E i \in Indexes : Unserializable(getByPath(Obj(arg[t].item), <<i>>))

\* C28: an insert or edit whose value at an index path cannot be encoded
\* writes nothing: no step of such a call changes an entity file or an
\* index.
C28_EncodingAbortsBeforeWrite ==
  [][\A t \in Tasks :
       (EncodingFails(t) /\ (pc'[t] # pc[t] \/ pos'[t] # pos[t]))
       => (files' = files /\ index' = index)]_vars

\* C29: a call during which the storage raised an error fails with that
\* same error.
C29_StorageErrorVerbatim ==
  \A t \in Tasks : last[t].cause # NoError => (~last[t].ok /\ last[t].error = last[t].cause)

\* ======================================================================
\* Sessions: a directory opened, used and closed by repository objects
\* whose options name different indexes
\* ======================================================================
\* options.indexes of a repository object: any of the indexes, in
\* Object.entries order
IndexOptions == {s \in UNION {[1..n -> Indexes] : n \in 0..NIdx} :
                   \A n, m \in 1..Len(s) : n < m => IndexOf(IndexOrder, s[n]) < IndexOf(IndexOrder, s[m])}

\* readIndexData: empty maps when the index file does not exist
readIndexData(data, i) == IF i \in DOMAIN data THEN data[i] ELSE EmptyIndex

\* the index files after friendMethodsSymbolAddItem of item on the indexes
\* names[from..] of the repository object
RECURSIVE addItemAll(_, _, _, _)
addItemAll(data, names, item, from) ==
  IF from > Len(names)
  THEN data
  ELSE addItemAll(SetKey(data, names[from], addItem(readIndexData(data, names[from]), names[from], item)),
                  names, item, from + 1)

\* the index files after friendMethodsSymbolRemoveItem of id on the indexes
\* names[from..] of the repository object
RECURSIVE removeItemAll(_, _, _, _)
removeItemAll(data, names, id, from) ==
  IF from > Len(names)
  THEN data
  ELSE removeItemAll(SetKey(data, names[from], removeItem(readIndexData(data, names[from]), id)),
                     names, id, from + 1)

\* the index files after the loop of edit: remove and add on each index
RECURSIVE editItemAll(_, _, _, _)
editItemAll(data, names, item, from) ==
  IF from > Len(names)
  THEN data
  ELSE LET i == names[from]
       IN editItemAll(SetKey(data, i, addItem(removeItem(readIndexData(data, i), item["$id"]), i, item)),
                      names, item, from + 1)

\* an empty directory no repository object has opened yet: no entity file
\* and no index file
InitSessions ==
  /\ files = <<>>
  /\ index = <<>>
  /\ nextId = 0
  /\ known = {}
  /\ held = [t \in Tasks |-> <<>>]
  /\ pc = [t \in Tasks |-> "idle"]
  /\ arg = [t \in Tasks |-> NoArg]
  /\ pos = [t \in Tasks |-> 0]
  /\ buf = [t \in Tasks |-> <<>>]
  /\ last = [t \in Tasks |-> NoLast]
  /\ ops = 0
  /\ lForward = <<>>
  /\ lBackward = <<>>
  /\ lExists = FALSE
  /\ lData = <<>>
  /\ worker = [t \in Tasks |-> FALSE]
  /\ dbs = [p \in 0..NTasks |-> "none"]
  /\ referenceCounter = 0
  /\ dbLog = <<>>
  /\ handles = [t \in Tasks |-> 0]

\* new JsonDBRepository(dbPath, options) and the call of open(), once every
\* earlier repository object is closed; buf holds the names of
\* options.indexes (at most MaxOps sessions are opened)
openRepository(t) ==
  /\ \A u \in Tasks : pc[u] = "idle"
  /\ ops < MaxOps
  /\ ops' = ops + 1
  /\ \E names \in IndexOptions :
       /\ buf' = [buf EXCEPT ![t] = names]
       /\ pc' = [pc EXCEPT ![t] = IF Len(names) = 0 THEN "s_open" ELSE "s_opening"]
       /\ pos' = [pos EXCEPT ![t] = IF Len(names) = 0 THEN 0 ELSE 1]
  /\ UNCHANGED <<files, index, nextId, known, held, arg, last, lvars, cvars>>

\* JsonDBIndex.open of the next index of the loop of open(): when the index
\* file does not exist, friendMethodsSymbolRemapIndex builds it from the
\* entity files; an index file that exists is left as it is
openIndex(t) ==
  /\ pc[t] = "s_opening"
  /\ LET i == buf[t][pos[t]]
     IN index' = IF i \in DOMAIN index
                 THEN index
                 ELSE SetKey(index, i, remapItems(EmptyIndex, i, getAllRaw(files, 1), 1))
  /\ IF pos[t] < Len(buf[t])
     THEN /\ pos' = [pos EXCEPT ![t] = @ + 1]
          /\ UNCHANGED pc
     ELSE /\ pos' = [pos EXCEPT ![t] = 0]
          /\ pc' = [pc EXCEPT ![t] = "s_open"]
  /\ UNCHANGED <<files, nextId, known, held, arg, buf, last, ops, lvars, cvars>>

\* insert on the open repository object: the entity file, then addItem on
\* each of its indexes
insertOpen(t) ==
  /\ pc[t] = "s_open"
  /\ nextId < MaxIds
  /\ \E value \in Docs :
       LET id == IdOf(nextId + 1)
           item == WithId(value, id)
       IN /\ nextId' = nextId + 1
          /\ files' = SetKey(files, id, item)
          /\ index' = addItemAll(index, buf[t], item, 1)
          /\ known' = known \cup {id}
          /\ last' = [last EXCEPT ![t] = [kind |-> "insert", id |-> id, ok |-> TRUE]]
  /\ UNCHANGED <<held, pc, arg, pos, buf, ops, lvars, cvars>>

\* edit on the open repository object: the merged entity file, then remove
\* and add on each of its indexes
editOpen(t) ==
  /\ pc[t] = "s_open"
  /\ \E id \in DOMAIN files, value \in Patches :
       LET item == Merge(files[id], value, id)
       IN /\ item # files[id]
          /\ files' = SetKey(files, id, item)
          /\ index' = editItemAll(index, buf[t], item, 1)
          /\ last' = [last EXCEPT ![t] = [kind |-> "edit", id |-> id, ok |-> TRUE]]
  /\ UNCHANGED <<nextId, known, held, pc, arg, pos, buf, ops, lvars, cvars>>

\* delete on the open repository object: the unlink, then removeItem on each
\* of its indexes
deleteOpen(t) ==
  /\ pc[t] = "s_open"
  /\ \E id \in DOMAIN files :
       /\ files' = DeleteKey(files, id)
       /\ index' = removeItemAll(index, buf[t], id, 1)
       /\ last' = [last EXCEPT ![t] = [kind |-> "delete", id |-> id, ok |-> TRUE]]
  /\ UNCHANGED <<nextId, known, held, pc, arg, pos, buf, ops, lvars, cvars>>

\* close(): the repository object is given up
closeRepository(t) ==
  /\ pc[t] = "s_open"
  /\ pc' = [pc EXCEPT ![t] = "idle"]
  /\ buf' = [buf EXCEPT ![t] = <<>>]
  /\ UNCHANGED <<files, index, nextId, known, held, arg, pos, last, ops, lvars, cvars>>

NextSessions == \E t \in Tasks :
                  \/ openRepository(t) \/ openIndex(t) \/ insertOpen(t) \/ editOpen(t)
                  \/ deleteOpen(t) \/ closeRepository(t)

SpecSessions == InitSessions /\ [][NextSessions]_vars

\* C30: once open() has returned, every stored entity is listed in every
\* index the options of the repository object name, under the key of its
\* current value, and this stays so after the inserts that follow.
C30_CompleteAfterOpen ==
  \A t \in Tasks :
    pc[t] = "s_open"
    => \A n \in 1..Len(buf[t]), id \in DOMAIN files :
         LET i == buf[t][n]
             k == serializeKeyByValue(getByExpression(files[id], i))
         IN /\ i \in DOMAIN index
            /\ id \in DOMAIN index[i].backward
            /\ index[i].backward[id] = k
            /\ k \in DOMAIN index[i].forward
            /\ Includes(index[i].forward[k], id)

\* ======================================================================
\* clear() against the other repository operations
\* ======================================================================
\* the caller t is inside the scope of clear
Clearing(t) == arg[t].kind = "clear" /\ pc[t] \in {"clear_unlink", "clr_wait", "clr_locked"}

\* the caller u is inside the scope of insert, edit or delete
Writing(u) ==
  /\ arg[u].kind \in {"insert", "edit", "delete"}
  /\ pc[u] \in {"insert_write", "edit_write", "delete_unlink", "add_wait", "add_locked", "rm_wait", "rm_locked"}

\* C31: no insert, edit or delete is inside its scope while a clear is inside
\* its own; when clear returns no entity is stored and both maps of every
\* index are empty; an insert that returns, after a clear too, has its
\* entity stored and listed in every index.
C31_ClearAtomic ==
  /\ [](\A t, u \in Tasks : Clearing(t) => ~Writing(u))
  /\ [][\A t \in Tasks :
          /\ (Clearing(t) /\ pc'[t] = "idle")
             => (files' = <<>> /\ \A i \in Indexes : index'[i] = EmptyIndex)
          /\ (arg[t].kind = "insert" /\ pc[t] = "add_locked" /\ pc'[t] = "idle")
             => (arg[t].id \in DOMAIN files' /\ \A i \in Indexes : arg[t].id \in DOMAIN index'[i].backward)]_vars

\* a clear has wiped the first entity and has returned, and the entity
\* inserted after it is the only one stored and is listed in every index
C31_Witness ==
  /\ \A t \in Tasks : pc[t] = "idle"
  /\ \E t, u \in Tasks :
       /\ last[t].kind = "clear"
       /\ last[u].kind = "insert"
       /\ nextId = 2
       /\ DOMAIN files = {last[u].id}
       /\ \A i \in Indexes : DOMAIN index[i].backward = {last[u].id}

\* ======================================================================
\* The order of the encoded keys
\* ======================================================================
\* ten times the number a numeric value stands for
TenthsOf(n) ==
  IF n = "0" THEN 0
  ELSE LET e == toExponential(n)
           m == IF Len(e.digits) = 1 THEN 10 * e.digits[1] ELSE 10 * e.digits[1] + e.digits[2]
           v == CASE e.exponent = -1 -> m \div 10 [] e.exponent = 0 -> m [] e.exponent = 1 -> 10 * m
       IN IF e.neg THEN 0 - v ELSE v

\* the values whose keys are compared: numbers, Dates, booleans, strings
OrderedNumbers == {"-10", "-5", "-0.5", "0", "0.5", "1", "2", "3.2", "10"}
OrderedValues == {Num(n) : n \in OrderedNumbers} \cup {DateOf(n) : n \in {"-5", "0", "10"}}
                 \cup {Bool("false"), Bool("true")}
                 \cup {Str(""), Str("a"), Str("b"), Str("a;b")}

\* a < b in the natural order of the type of a and b
NaturalLess(a, b) ==
  CASE a.kind \in {"number", "date"} -> TenthsOf(a.text) < TenthsOf(b.text)
    [] a.kind = "boolean" -> a.text = "false" /\ b.text = "true"
    [] a.kind = "string" -> StrLess(CharsOf(a.text), CharsOf(b.text))

\* no key has been computed yet
InitKeys ==
  /\ files = <<>>
  /\ index = [i \in Indexes |-> EmptyIndex]
  /\ nextId = 0
  /\ known = {}
  /\ held = [t \in Tasks |-> <<>>]
  /\ pc = [t \in Tasks |-> "idle"]
  /\ arg = [t \in Tasks |-> NoArg]
  /\ pos = [t \in Tasks |-> 0]
  /\ buf = [t \in Tasks |-> <<>>]
  /\ last = [t \in Tasks |-> NoLast]
  /\ ops = 0
  /\ lForward = <<>>
  /\ lBackward = <<>>
  /\ lExists = FALSE
  /\ lData = <<>>
  /\ worker = [t \in Tasks |-> FALSE]
  /\ dbs = [p \in 0..NTasks |-> "none"]
  /\ referenceCounter = 0
  /\ dbLog = <<>>
  /\ handles = [t \in Tasks |-> 0]

\* a caller has serializeKeyByValue compute the key of a value: arg keeps
\* the value, buf the key
serializeValue(t) ==
  /\ ops < MaxOps
  /\ ops' = ops + 1
  /\ \E v \in OrderedValues :
       /\ arg' = [arg EXCEPT ![t] = [kind |-> "serialize", id |-> NoId, item |-> v]]
       /\ buf' = [buf EXCEPT ![t] = serializeKey(v)]
  /\ UNCHANGED <<files, index, nextId, known, held, pc, pos, last, lvars, cvars>>

NextKeys == \E t \in Tasks : serializeValue(t)

SpecKeys == InitKeys /\ [][NextKeys]_vars

\* C32: the keys of two numbers, of two Dates, of two booleans or of two
\* strings compare as strings the way the two values compare.
C32_KeyOrder ==
  \A t, u \in Tasks :
    (arg[t].kind = "serialize" /\ arg[u].kind = "serialize" /\ arg[t].item.kind = arg[u].item.kind)
    => (NaturalLess(arg[t].item, arg[u].item) <=> StrLess(buf[t], buf[u]))

\* the keys of -5 and of -0.5 have been computed and compare like them
C32_Witness ==
  \E t, u \in Tasks :
    /\ arg[t].kind = "serialize" /\ arg[t].item = Num("-5")
    /\ arg[u].kind = "serialize" /\ arg[u].item = Num("-0.5")
    /\ StrLess(buf[t], buf[u])

\* ======================================================================
\* Concurrent edits and deletes of different entities
\* ======================================================================
\* the callers edit and delete the entities of a repository that holds
\* MaxIds of them
NextEdits == \E t \in Tasks :
               \/ edit(t) \/ editLock(t) \/ editWrite(t)
               \/ delete(t) \/ deleteLock(t) \/ deleteUnlink(t)
               \/ modifyIndex(t) \/ removeItemWrite(t) \/ addItemWrite(t)

SpecEdits == InitDeletes /\ [][NextEdits]_vars

\* the keys of the buckets of an index that list id
ListedUnder(data, id) == {k \in DOMAIN data.forward : Includes(data.forward[k], id)}

\* the caller t is inside edit or delete and has rewritten or removed the record
Rewriting(t) == arg[t].kind \in {"edit", "delete"} /\ pc[t] \in {"rm_wait", "rm_locked", "add_wait", "add_locked"}

\* C33: a step of edit(id) or delete(id) leaves the record, the buckets and
\* the backward entry of every other entity as they were, whatever runs
\* concurrently; an edit that returns leaves the record it wrote stored and
\* filed under its value.
C33_EditDeleteFrame ==
  [][\A t \in Tasks :
       (arg[t].kind \in {"edit", "delete"} /\ pc'[t] # pc[t])
       => /\ \A id \in Ids \ {arg[t].id} :
               /\ (id \in DOMAIN files) = (id \in DOMAIN files')
               /\ id \in DOMAIN files => files'[id] = files[id]
               /\ \A i \in Indexes :
                    /\ ListedUnder(index'[i], id) = ListedUnder(index[i], id)
                    /\ (id \in DOMAIN index[i].backward) = (id \in DOMAIN index'[i].backward)
                    /\ id \in DOMAIN index[i].backward => index'[i].backward[id] = index[i].backward[id]
          /\ (arg[t].kind = "edit" /\ pc[t] = "add_locked" /\ pc'[t] = "idle")
             => /\ files'[arg[t].id] = arg[t].item
                /\ \A i \in Indexes :
                     ListedUnder(index'[i], arg[t].id) = {serializeKeyByValue(getByExpression(arg[t].item, i))}]_vars

\* two callers are inside edits of two different entities that are filed in
\* the same bucket, and both have rewritten their record
C33_Witness ==
  \E t, u \in Tasks :
    /\ Rewriting(t) /\ arg[t].kind = "edit"
    /\ Rewriting(u) /\ arg[u].kind = "edit"
    /\ arg[t].id # arg[u].id
    /\ \E i \in Indexes : \E k \in DOMAIN index[i].forward :
         Includes(index[i].forward[k], arg[t].id) /\ Includes(index[i].forward[k], arg[u].id)

\* C34: exists(v) is true exactly when get(v) lists at least one id, and a
\* value no entity is filed under any more (its last entity was removed from
\* the index) has no forward bucket: no forward bucket of a JsonDBIndex or
\* of a LocalDBIndex is an empty id list.
C34_EmptiedBucketGone ==
  /\ \A i \in Indexes : \A k \in DOMAIN index[i].forward :
       Len(index[i].forward[k]) > 0
  /\ \A k \in DOMAIN lForward : Len(LGetIds(lForward, k)) > 0

\* ======================================================================
\* LevelDB.open with the physical open in progress
\* ======================================================================
\* db.open() of the level store was called and has not resolved yet, or has
\* resolved: the log of the store keeps both events
FinishedOpening == Len(dbLog) > 0 /\ dbLog[Len(dbLog)].call = "opened"

\* LevelDB.open() up to its first await, also as LevelDBCluster.getInstance
\* calls it in the non-worker process (dbs[unique] is set before the call):
\* referenceCounter++ > 0 returns, else db.open() is called and awaited
levelOpen(t) ==
  \E kind \in {"open", "getInstance"} :
    /\ pc[t] = "idle"
    /\ ops < MaxOps
    /\ ops' = ops + 1
    /\ arg' = [arg EXCEPT ![t] = [kind |-> kind, id |-> NoId, item |-> <<>>]]
    /\ dbs' = IF kind = "getInstance" THEN [dbs EXCEPT ![0] = "local"] ELSE dbs
    /\ referenceCounter' = referenceCounter + 1
    /\ IF referenceCounter > 0
       THEN /\ pc' = [pc EXCEPT ![t] = "lo_return"]
            /\ UNCHANGED dbLog
       ELSE /\ pc' = [pc EXCEPT ![t] = "lo_opening"]
            /\ dbLog' = Append(dbLog, [call |-> "open", by |-> 0])
    /\ UNCHANGED <<jvars, held, pos, buf, last, lvars, lData, worker, handles>>

\* the promise of db.open() resolves
levelOpenResolve(t) ==
  /\ pc[t] = "lo_opening"
  /\ dbLog' = Append(dbLog, [call |-> "opened", by |-> 0])
  /\ pc' = [pc EXCEPT ![t] = "lo_return"]
  /\ UNCHANGED <<jvars, held, arg, pos, buf, last, ops, lvars, lData, worker, dbs, referenceCounter, handles>>

\* open() returns to its caller, which holds the handle from now on
levelOpenReturn(t) ==
  /\ pc[t] = "lo_return"
  /\ handles' = [handles EXCEPT ![t] = @ + 1]
  /\ Return(t, TRUE)
  /\ UNCHANGED <<jvars, held, ops, lvars, lData, worker, dbs, referenceCounter, dbLog>>

\* LevelDB.close() by a holder: --referenceCounter > 0 returns, else db.close()
levelClose(t) ==
  /\ pc[t] = "idle"
  /\ handles[t] > 0
  /\ ops < MaxOps
  /\ ops' = ops + 1
  /\ LET db == close(TheDb, 0)
     IN /\ referenceCounter' = db.referenceCounter
        /\ dbLog' = db.log
  /\ handles' = [handles EXCEPT ![t] = @ - 1]
  /\ last' = [last EXCEPT ![t] = [kind |-> "close", id |-> NoId, ok |-> TRUE]]
  /\ UNCHANGED <<jvars, held, pc, arg, pos, buf, lvars, lData, worker, dbs>>

InitOpening == InitCluster /\ worker = [t \in Tasks |-> FALSE]

NextOpening == \E t \in Tasks :
                 \/ levelOpen(t) \/ levelOpenResolve(t) \/ levelOpenReturn(t)
                 \/ levelClose(t)

SpecOpening == InitOpening /\ [][NextOpening]_vars

\* C35: a caller that open() or getInstance() has returned to, and that has
\* not closed its handle, finds the physical store opened: the db.open() of
\* the level store has resolved.
C35_OpenedOnReturn ==
  \A t \in Tasks : handles[t] > 0 => FinishedOpening

\* ======================================================================
\* Rebuild and edits that leave the indexed field alone
\* ======================================================================
\* the loop of friendMethodsSymbolRemapIndex over the entities getAll has
\* parsed from the files fs[from..]
RECURSIVE qRemapItems(_, _, _)
qRemapItems(data, fs, from) ==
  IF from > MaxIds
  THEN data
  ELSE IF IdOf(from) \in DOMAIN fs
       THEN qRemapItems(qAddItem(data, JSONparse(fs[IdOf(from)]).members), fs, from + 1)
       ELSE qRemapItems(data, fs, from + 1)

\* partial data that does not name the indexed field
OtherPatch == SetKey(<<>>, "other", Str("b"))

\* JsonDBRepository.remapIndex is called
stableRemap(t) ==
  /\ Call(t, "remapIndex", NoId, <<>>, "st_remap")
  /\ UNCHANGED pos

\* friendMethodsSymbolRemapIndex: lockSingleAccess on the repository key,
\* getAll, modifyIndex with the maps rebuilt from the parsed entities
stableRemapWrite(t) ==
  /\ pc[t] = "st_remap"
  /\ CanLock(t, RepoKey, TRUE)
  /\ index' = [index EXCEPT ![QIndexName] = qRemapItems(EmptyIndex, files, 1)]
  /\ Return(t, TRUE)
  /\ UNCHANGED <<files, nextId, known, held, ops, lvars, cvars>>

\* JsonDBRepository.edit(id, value) is called
stableEdit(t) ==
  \E id \in known :
    /\ Call(t, "edit", id, OtherPatch, "st_edit")
    /\ UNCHANGED pos

\* edit under lockSingleAccess on the id: the file is parsed, merged with
\* the partial data and written, the id is removed from the index and the
\* merged item is added
stableEditWrite(t) ==
  /\ pc[t] = "st_edit"
  /\ CanLock(t, IdKey(arg[t].id), TRUE)
  /\ LET oldData == JSONparse(files[arg[t].id]).members
         item == MergeOf(oldData, arg[t].item, arg[t].id)
     IN /\ files' = [files EXCEPT ![arg[t].id] = JSONstringify(Obj(item))]
        /\ index' = [index EXCEPT ![QIndexName] = qAddItem(removeItem(@, arg[t].id), item)]
  /\ Return(t, TRUE)
  /\ UNCHANGED <<nextId, known, held, ops, lvars, cvars>>

NextStable == \E t \in Tasks :
                \/ stableRemap(t) \/ stableRemapWrite(t)
                \/ stableEdit(t) \/ stableEditWrite(t)

SpecStable == InitQuery /\ [][NextStable]_vars

\* C36: a rebuild, and an edit whose partial data does not name the indexed
\* field, leave every entity filed where insert has filed it: each id is
\* listed under the same keys and has the same backward entry before and
\* after, whatever the type of the indexed value.
C36_NoOpMaintenance ==
  [][\A t \in Tasks :
       (pc[t] \in {"st_remap", "st_edit"} /\ pc'[t] = "idle")
       => \A id \in DOMAIN files :
            /\ ListedUnder(index'[QIndexName], id) = ListedUnder(index[QIndexName], id)
            /\ index'[QIndexName].backward[id] = index[QIndexName].backward[id]]_vars

\* ======================================================================
\* Readers of entity records beside edit and delete
\* ======================================================================
\* --------------------------------- JsonDBRepository.get and getAll
getAll(t) ==
  \E kind \in {"get", "getAll"} :
    /\ Call(t, kind, NoId, <<>>, "getall_wait")
    /\ UNCHANGED pos

\* lockMultiAccess on `${unique}`; getRaw / getAllRaw start on the ids asked
\* for, or on the files of the directory
getAllLock(t) ==
  /\ pc[t] = "getall_wait"
  /\ CanLock(t, RepoKey, FALSE)
  /\ held' = Lock(t, RepoKey, FALSE)
  /\ buf' = [buf EXCEPT ![t] = [n \in 1..MaxIds |-> IdOf(n)]]
  /\ pc' = [pc EXCEPT ![t] = "getall_raw"]
  /\ UNCHANGED <<files, index, nextId, known, arg, pos, last, ops, lvars, cvars>>

\* the records have been read; the scope is left
getAllRead(t) ==
  /\ pc[t] = "getall_raw"
  /\ held' = Unlock(t)
  /\ Return(t, TRUE)
  /\ UNCHANGED <<files, index, nextId, known, ops, lvars, cvars>>

\* ------------------------------------- JsonDBIndex.get and getOne
indexGet(t) ==
  \E n \in 1..NIdx, kind \in {"index.get", "index.getOne"} :
    /\ Call(t, kind, NoId, <<>>, "iget_wait")
    /\ pos' = [pos EXCEPT ![t] = n]

\* readIndex: the scope on the index key is entered and left; get keeps the
\* ids of the bucket of the value, getOne the first of them
indexGetRead(t) ==
  /\ pc[t] = "iget_wait"
  /\ CanLock(t, IndexKey(CurIndex(t)), FALSE)
  /\ \E k \in DOMAIN index[CurIndex(t)].forward \cup {NoId} :
       LET ids == BucketOf(index[CurIndex(t)].forward, k)
       IN buf' = [buf EXCEPT ![t] = IF arg[t].kind = "index.getOne" /\ Len(ids) > 0
                                    THEN <<ids[1]>> ELSE ids]
  /\ pc' = [pc EXCEPT ![t] = "iget_lock"]
  /\ UNCHANGED <<files, index, nextId, known, held, arg, pos, last, ops, lvars, cvars>>

\* get: lockMultiAccess on `${unique}`; getOne: lockMultiAccess on
\* `${unique}/${id}`, the id being null when the bucket is empty
indexGetLock(t) ==
  /\ pc[t] = "iget_lock"
  /\ LET key == IF arg[t].kind = "index.get" THEN RepoKey
                ELSE IdKey(IF Len(buf[t]) > 0 THEN buf[t][1] ELSE "null")
     IN /\ CanLock(t, key, FALSE)
        /\ held' = Lock(t, key, FALSE)
  /\ pc' = [pc EXCEPT ![t] = "iget_raw"]
  /\ UNCHANGED <<files, index, nextId, known, arg, pos, buf, last, ops, lvars, cvars>>

\* dataGetters.get(ids) / dataGetters.getOne(id) have read the records
indexGetRaw(t) ==
  /\ pc[t] = "iget_raw"
  /\ held' = Unlock(t)
  /\ Return(t, TRUE)
  /\ UNCHANGED <<files, index, nextId, known, ops, lvars, cvars>>

\* ------------------------------------------------- JsonDBIndex.query
indexQuery(t) ==
  \E n \in 1..NIdx :
    /\ Call(t, "index.query", NoId, <<>>, "iquery_wait")
    /\ pos' = [pos EXCEPT ![t] = n]

\* readIndex: lockMultiAccess on the index key; the scan collects the ids
\* of the buckets that pass; dataGetters.get(results) starts inside the scope
indexQueryLock(t) ==
  /\ pc[t] = "iquery_wait"
  /\ CanLock(t, IndexKey(CurIndex(t)), FALSE)
  /\ held' = Lock(t, IndexKey(CurIndex(t)), FALSE)
  /\ \E k \in DOMAIN index[CurIndex(t)].forward \cup {NoId} :
       buf' = [buf EXCEPT ![t] = BucketOf(index[CurIndex(t)].forward, k)]
  /\ pc' = [pc EXCEPT ![t] = "iquery_raw"]
  /\ UNCHANGED <<files, index, nextId, known, arg, pos, last, ops, lvars, cvars>>

\* (the records are read under the shared lock on `${unique}`, requested
\* inside the scope on the index key)
indexQueryRawUnderRepoLock(t) ==
  /\ pc[t] = "iquery_raw"
  /\ CanLock(t, RepoKey, FALSE)
  /\ held' = Unlock(t)
  /\ Return(t, TRUE)
  /\ UNCHANGED <<files, index, nextId, known, ops, lvars, cvars>>

\* dataGetters.get(results) has read the records; the scope is left
indexQueryRaw(t) ==
  /\ pc[t] = "iquery_raw"
  /\ held' = Unlock(t)
  /\ Return(t, TRUE)
  /\ UNCHANGED <<files, index, nextId, known, ops, lvars, cvars>>

NextReaders == \E t \in Tasks :
                 \/ edit(t) \/ editLock(t) \/ editWrite(t)
                 \/ delete(t) \/ deleteLock(t) \/ deleteUnlink(t)
                 \/ modifyIndex(t) \/ removeItemWrite(t) \/ addItemWrite(t)
                 \/ getOne(t) \/ getOneLock(t) \/ getOneRaw(t)
                 \/ getAll(t) \/ getAllLock(t) \/ getAllRead(t)
                 \/ indexGet(t) \/ indexGetRead(t) \/ indexGetLock(t) \/ indexGetRaw(t)
                 \/ indexQuery(t) \/ indexQueryLock(t) \/ indexQueryRaw(t)

SpecReaders == InitDeletes /\ [][NextReaders]_vars

\* the caller r is reading the record of id
ReadingRecord(r, id) ==
  \/ pc[r] = "getone_raw" /\ arg[r].id = id
  \/ pc[r] \in {"getall_raw", "iget_raw", "iquery_raw"} /\ Includes(buf[r], id)

\* the caller w is rewriting (edit) or removing (delete) the record of id
WritingRecord(w, id) == pc[w] \in {"edit_write", "delete_unlink"} /\ arg[w].id = id

\* C37: while edit(id) is rewriting or delete(id) is removing the record of
\* id, no getOne, get or getAll of the repository and no get, getOne or
\* query of an index is reading that record.
C37_NoReadDuringWrite ==
  \A r, w \in Tasks : \A id \in Ids : ~(ReadingRecord(r, id) /\ WritingRecord(w, id))

\* ======================================================================
\* Every call returns
\* ======================================================================
NextCalls == \E t \in Tasks :
               \/ insert(t) \/ insertLock(t) \/ insertWrite(t)
               \/ editById(t) \/ editLock(t) \/ editWrite(t)
               \/ deleteById(t) \/ deleteLock(t) \/ deleteUnlink(t)
               \/ clear(t) \/ clearLock(t) \/ clearUnlink(t) \/ clearIndexWrite(t)
               \/ modifyIndex(t) \/ addItemWrite(t) \/ removeItemWrite(t)
               \/ readIndex(t) \/ readIndexLock(t) \/ readIndexDone(t)
               \/ getOne(t) \/ getOneLock(t) \/ getOneRaw(t)
               \/ getAll(t) \/ getAllLock(t) \/ getAllRead(t)
               \/ indexGet(t) \/ indexGetRead(t) \/ indexGetLock(t) \/ indexGetRaw(t)
               \/ indexQuery(t) \/ indexQueryLock(t) \/ indexQueryRaw(t)

SpecCalls == Init /\ [][NextCalls]_vars

\* a call that was issued keeps running: every continuation that is ready
\* is resumed, and the mutex grants a lock that stays free
StepCalls(t) == \/ insertLock(t) \/ insertWrite(t)
                \/ editLock(t) \/ editWrite(t)
                \/ deleteLock(t) \/ deleteUnlink(t)
                \/ clearLock(t) \/ clearUnlink(t) \/ clearIndexWrite(t)
                \/ modifyIndex(t) \/ addItemWrite(t) \/ removeItemWrite(t)
                \/ readIndexLock(t) \/ readIndexDone(t)
                \/ getOneLock(t) \/ getOneRaw(t)
                \/ getAllLock(t) \/ getAllRead(t)
                \/ indexGetRead(t) \/ indexGetLock(t) \/ indexGetRaw(t)
                \/ indexQueryLock(t) \/ indexQueryRaw(t)

FairCalls == SpecCalls /\ \A t \in Tasks : WF_vars(StepCalls(t))

\* C38: every insert, edit, delete, clear, getOne, get, getAll and index
\* exists, get, getOne or query that was issued returns, whatever runs beside
\* it; a caller a call has returned to, with a result or with an error, holds
\* no lock.
C38_EveryCallReturns ==
  /\ [](\A t \in Tasks : pc[t] = "idle" => held[t] = <<>>)
  /\ \A t \in Tasks : (pc[t] # "idle") ~> (pc[t] = "idle")

\* an edit of an id has failed and a later delete of the same id is inside
\* its lock scope
C38_Witness ==
  \E t, u \in Tasks :
    /\ t # u
    /\ last[t].kind = "edit"
    /\ ~last[t].ok
    /\ pc[u] = "delete_unlink"
    /\ arg[u].id = last[t].id
    /\ \E n \in 1..Len(held[u]) : held[u][n].key = IdKey(arg[u].id)

\* the entities whose indexed value is a number that satisfies the bound
NumbersWhere(op, a) ==
  {id \in Indexed :
     /\ StoredValue(id).kind = "number"
     /\ LET v == NumberOf(StoredValue(id).text)
            n == NumberOf(a.text)
        IN CASE op = "gte" -> v >= n
             [] op = "gt" -> v > n
             [] op = "lte" -> v <= n
             [] op = "lt" -> v < n}

\* C39: on an index whose entities hold a number, null or no value at the
\* path, query({gte: a}), query({gt: a}), query({lte: a}) and query({lt: a})
\* with a numeric bound return exactly the entities whose value is a number
\* that satisfies the bound.
C39_OneSidedNumericRange ==
  (Queried /\ \A id \in DOMAIN files : StoredValue(id).kind \in {"number", "null", "undefined"})
  => \A a \in Numbers : \A op \in {"gte", "gt", "lte", "lt"} :
       Q(SetKey(<<>>, op, a)) = NumbersWhere(op, a)

====
